---------------------------- MODULE Spec2Model ----------------------------
(***************************************************************************)
(* Model of the outbound call gateway of xueqiu_mcp/server.py:             *)
(*   TokenRotator        - credential pool with failure-based cooldown     *)
(*   AdaptiveRateLimiter - shared pacing interval with backoff/recovery    *)
(*   rate_limited_call   - wait, apply token, call, retry once, classify   *)
(*                                                                         *)
(* Time is the value of time.time() in milliseconds; every duration of     *)
(* the source (given there in seconds) is written in milliseconds.         *)
(* A credential is a sequence of characters; the empty sequence stands     *)
(* for Python's falsy token values (None and "").                          *)
(***************************************************************************)
EXTENDS Integers, Sequences, FiniteSets, TLC

VARIABLES
    env,                \* os.environ: XUEQIU_TOKEN and XUEQIU_TOKEN_i
    tokens,             \* TokenRotator.tokens
    current_index,      \* TokenRotator.current_index
    token_status,       \* TokenRotator.token_status
    active_token,       \* the token pysnowball holds (ball.set_token)
    current_interval,   \* AdaptiveRateLimiter.current_interval
    last_request_time,  \* AdaptiveRateLimiter.last_request_time
    limiter_lock,       \* holder of AdaptiveRateLimiter._lock, 0 when free
    pool_lock,          \* holder of TokenRotator._lock, 0 when free
    now,                \* time.time()
    pc,                 \* position of each caller
    call,               \* locals and per-call record of each caller
    api,                \* the last operation completed and what it returned
    hist,               \* tokens returned by the latest get_next_token calls
    g_fail,             \* per token: failures reported since its last success
    g_since,            \* per token: time of its latest disabling failure
    calls,              \* number of logical calls begun
    order,              \* callers of wait(): as admitted, and as completed
    args,               \* arguments of the data function being applied
    processed           \* what that function returned or raised

vars == << env, tokens, current_index, token_status, active_token, current_interval,
           last_request_time, limiter_lock, pool_lock, now, pc, call, api,
           hist, g_fail, g_since, calls, order, args, processed >>

dataVars    == << args, processed >>
poolVars    == << env, tokens, current_index, token_status, pool_lock >>
limiterVars == << current_interval, last_request_time, limiter_lock >>
ghostVars   == << hist, g_fail, g_since, calls, order >>

---------------------------------------------------------------------------
(* Program constants *)

cooldown_seconds == 60000
max_failures     == 3
min_interval     == 1500
max_interval     == 8000
recovery_timeout == 60000
RetryDelay       == 2000
NumIndexed       == 9

(* Bounds of the model *)

StartTime    == 100000      \* time.time() when the process starts
Horizon      == 90         \* seconds of behaviour explored after StartTime
MaxFailCount == 4           \* cap on a token's consecutive failure count
MaxCalls     == 3           \* cap on the number of logical calls
MaxConcCalls == 2           \* cap on the logical calls of concurrent callers
MaxPrimaryLen == 3          \* longest XUEQIU_TOKEN explored by the load model
MaxIndexedSet == 3          \* highest i with XUEQIU_TOKEN_i set in the load model

None == <<>>

Min(a, b) == IF a < b THEN a ELSE b
Range(s) == { s[i] : i \in 1..Len(s) }

---------------------------------------------------------------------------
(* TokenRotator._load_tokens *)

RECURSIVE Split(_, _)
Split(s, cur) ==
    IF s = <<>> THEN << cur >>
    ELSE IF Head(s) = "," THEN << cur >> \o Split(Tail(s), <<>>)
    ELSE Split(Tail(s), Append(cur, Head(s)))

RECURSIVE LStrip(_)
LStrip(s) == IF s # <<>> /\ Head(s) = " " THEN LStrip(Tail(s)) ELSE s

RECURSIVE RStrip(_)
RStrip(s) ==
    IF s # <<>> /\ s[Len(s)] = " " THEN RStrip(SubSeq(s, 1, Len(s) - 1)) ELSE s

Strip(s) == RStrip(LStrip(s))

NonEmpty(s) == s # <<>>

PrimaryTokens(tokens_str) ==
    IF "," \in Range(tokens_str)
    THEN LET parts == Split(tokens_str, <<>>)
         IN  SelectSeq([i \in 1..Len(parts) |-> Strip(parts[i])], NonEmpty)
    ELSE IF tokens_str # <<>> THEN << tokens_str >>
    ELSE <<>>

(* Variant: the scan of XUEQIU_TOKEN_i ends at the first unset variable *)
RECURSIVE IndexedTokensUntilGap(_, _, _)
IndexedTokensUntilGap(toks, indexed, i) ==
    IF i > NumIndexed THEN toks
    ELSE LET token == indexed[i]
         IN  IF token = None THEN toks
             ELSE IndexedTokensUntilGap(IF token \notin Range(toks)
                                        THEN Append(toks, token) ELSE toks,
                                        indexed, i + 1)

RECURSIVE IndexedTokens(_, _, _)
IndexedTokens(toks, indexed, i) ==
    IF i > NumIndexed THEN toks
    ELSE LET token == indexed[i]
         IN  IndexedTokens(IF token # None /\ token \notin Range(toks)
                           THEN Append(toks, token) ELSE toks,
                           indexed, i + 1)

LoadTokens(e) == IndexedTokens(PrimaryTokens(e.primary), e.indexed, 1)

InitialStatus(toks) ==
    [t \in Range(toks) |-> [failures |-> 0, disabled_until |-> 0]]

(* The environments the model starts from: XUEQIU_TOKEN and XUEQIU_TOKEN_i *)
NoIndexed == [i \in 1..NumIndexed |-> None]

Envs ==
    { [primary |-> <<>>,                          indexed |-> NoIndexed],
      [primary |-> <<"a">>,                       indexed |-> NoIndexed],
      [primary |-> <<"a">>,                       indexed |-> [NoIndexed EXCEPT ![1] = <<"b">>]],
      [primary |-> <<"a", ",", " ", "b">>,        indexed |-> [NoIndexed EXCEPT ![1] = <<"a">>, ![2] = <<"c">>]],
      [primary |-> <<"a", ",", "a">>,             indexed |-> NoIndexed] }

---------------------------------------------------------------------------
(* TokenRotator.get_next_token, report_failure, report_success *)

Eligible(token) == now >= token_status[token].disabled_until

(* Variant: the scan gives up when every token is cooling down *)
RECURSIVE ScanNoFallback(_, _)
ScanNoFallback(idx, left) ==
    IF left = 0
    THEN [token |-> None, index |-> idx]
    ELSE LET token == tokens[idx + 1]
         IN  IF Eligible(token)
             THEN [token |-> token, index |-> (idx + 1) % Len(tokens)]
             ELSE ScanNoFallback((idx + 1) % Len(tokens), left - 1)

(* Variant: a token that is skipped does not move the cursor *)
RECURSIVE ScanCursorStays(_, _)
ScanCursorStays(idx, left) ==
    IF left = 0
    THEN [token |-> tokens[1], index |-> current_index]
    ELSE LET token == tokens[idx + 1]
         IN  IF Eligible(token)
             THEN [token |-> token, index |-> (current_index + 1) % Len(tokens)]
             ELSE ScanCursorStays((idx + 1) % Len(tokens), left - 1)

RECURSIVE Scan(_, _)
Scan(idx, left) ==
    IF left = 0
    THEN [token |-> tokens[1], index |-> idx]
    ELSE LET token == tokens[idx + 1]
         IN  IF Eligible(token)
             THEN [token |-> token, index |-> (idx + 1) % Len(tokens)]
             ELSE Scan((idx + 1) % Len(tokens), left - 1)

GetNextToken ==
    IF tokens = <<>> THEN [token |-> None, index |-> current_index]
    ELSE IF Len(tokens) = 1 THEN [token |-> tokens[1], index |-> current_index]
    ELSE Scan(current_index, Len(tokens))

(* Variant: a token is disabled only by the failure that reaches the threshold *)
DisablesOnce(failures) == failures = max_failures

(* Variant: the threshold is compared with > *)
DisablesLate(failures) == failures > max_failures

Disables(failures) == failures >= max_failures

(* Variant: report_failure without the single-token guard *)
ReportFailureAnySize(token) ==
    IF token = None \/ token \notin DOMAIN token_status THEN token_status
    ELSE LET failures == token_status[token].failures + 1
         IN  [token_status EXCEPT ![token] =
                 [failures |-> failures,
                  disabled_until |-> IF Disables(failures)
                                     THEN now + cooldown_seconds
                                     ELSE @.disabled_until]]

(* Variant: disabling a token resets its failure count *)
ReportFailureResetting(token) ==
    IF token = None \/ token \notin DOMAIN token_status THEN token_status
    ELSE IF Len(tokens) <= 1 THEN token_status
    ELSE LET failures == token_status[token].failures + 1
         IN  [token_status EXCEPT ![token] =
                 [failures |-> IF Disables(failures) THEN 0 ELSE failures,
                  disabled_until |-> IF Disables(failures)
                                     THEN now + cooldown_seconds
                                     ELSE @.disabled_until]]

ReportFailure(token) ==
    IF token = None \/ token \notin DOMAIN token_status THEN token_status
    ELSE IF Len(tokens) <= 1 THEN token_status
    ELSE LET failures == token_status[token].failures + 1
         IN  [token_status EXCEPT ![token] =
                 [failures |-> failures,
                  disabled_until |-> IF Disables(failures)
                                     THEN now + cooldown_seconds
                                     ELSE @.disabled_until]]

(* Variant: a success lifts the cooldown *)
ReportSuccessLifting(token) ==
    IF token = None \/ token \notin DOMAIN token_status THEN token_status
    ELSE [token_status EXCEPT ![token] = [failures |-> 0, disabled_until |-> 0]]

ReportSuccess(token) ==
    IF token = None \/ token \notin DOMAIN token_status THEN token_status
    ELSE [token_status EXCEPT ![token].failures = 0]

(* What the reports say about a token, kept apart from the pool's own state *)
Known(token) == token # None /\ token \in DOMAIN g_fail

NoteFailure(token) ==
    IF Known(token)
    THEN /\ g_fail' = [g_fail EXCEPT ![token] = @ + 1]
         /\ g_since' = IF g_fail[token] + 1 >= max_failures
                       THEN [g_since EXCEPT ![token] = now] ELSE g_since
    ELSE UNCHANGED << g_fail, g_since >>

NoteSuccess(token) ==
    /\ g_fail' = IF Known(token) THEN [g_fail EXCEPT ![token] = 0] ELSE g_fail
    /\ UNCHANGED g_since

AllEligible == \A t \in Range(tokens) : Eligible(t)

NoteNext(token) ==
    hist' = IF AllEligible /\ token # None
            THEN LET h == Append(hist, token)
                 IN  IF Len(h) > Len(tokens) + 1 THEN Tail(h) ELSE h
            ELSE <<>>

CanFail(token) ==
    token \in DOMAIN token_status =>
        /\ token_status[token].failures < MaxFailCount
        /\ g_fail[token] < MaxFailCount

---------------------------------------------------------------------------
(* Callers *)

Procs == {1, 2}

NoOrder == [admitted |-> <<>>, completed |-> <<>>]

(* no data function applied, and one applied that has not returned *)
NoArgs  == [fn |-> "none"]
Pending == [type |-> "pending"]

NoApi == [op |-> "none", tok |-> None, gap |-> 0, prev |-> 0, last |-> 0]

(* A caller's locals (current_token, retry_token, result, the exception it *)
(* handles) and the record of what its logical call has done so far.       *)
IdleCall == [cur |-> None, retry |-> None, wake |-> 0, gap |-> 0, prev |-> 0,
             seen |-> 0, base |-> 0, ticket |-> 0, log |-> <<>>, result |-> "none", err |-> "none",
             outcome |-> "none", returned |-> "none", raised |-> "none"]

InitCommon ==
    /\ env \in Envs
    /\ tokens = LoadTokens(env)
    /\ current_index = 0
    /\ token_status = InitialStatus(tokens)
    /\ active_token = None
    /\ current_interval = min_interval
    /\ last_request_time = 0
    /\ limiter_lock = 0
    /\ pool_lock = 0
    /\ now = StartTime
    /\ pc = [p \in Procs |-> "idle"]
    /\ call = [p \in Procs |-> IdleCall]
    /\ api = NoApi
    /\ hist = <<>>
    /\ g_fail = [t \in Range(tokens) |-> 0]
    /\ g_since = [t \in Range(tokens) |-> -1]
    /\ calls = 0
    /\ order = NoOrder
    /\ args = NoArgs
    /\ processed = Pending

(* Passage of time *)
Tick(d) ==
    /\ now + d <= StartTime + Horizon * 1000
    /\ now' = now + d
    /\ api' = NoApi
    /\ UNCHANGED << dataVars, poolVars, limiterVars, active_token, pc, call, ghostVars >>

---------------------------------------------------------------------------
(* TokenRotator.__init__ in any environment: XUEQIU_TOKEN is any string of *)
(* up to MaxPrimaryLen characters, each of XUEQIU_TOKEN_1 ..               *)
(* XUEQIU_TOKEN_MaxIndexedSet is unset or holds a token.                   *)

Chars == {"a", "b", ",", " "}
Strings(n) == UNION { [1..k -> Chars] : k \in 0..n }
IndexedValues == {None, <<"a">>, <<"c">>}

LoadEnvs ==
    { [primary |-> s,
       indexed |-> [i \in 1..NumIndexed |-> IF i <= MaxIndexedSet THEN f[i] ELSE None]] :
          s \in Strings(MaxPrimaryLen), f \in [1..MaxIndexedSet -> IndexedValues] }

(* __init__ before _load_tokens: no token, no status *)
InitLoad ==
    /\ env \in LoadEnvs
    /\ tokens = <<>>
    /\ current_index = 0
    /\ token_status = InitialStatus(<<>>)
    /\ active_token = None
    /\ current_interval = min_interval
    /\ last_request_time = 0
    /\ limiter_lock = 0
    /\ pool_lock = 0
    /\ now = StartTime
    /\ pc = [p \in Procs |-> "idle"]
    /\ call = [p \in Procs |-> IdleCall]
    /\ api = NoApi
    /\ hist = <<>>
    /\ g_fail = <<>>
    /\ g_since = <<>>
    /\ calls = 0
    /\ order = NoOrder
    /\ args = NoArgs
    /\ processed = Pending

(* _load_tokens *)
Load ==
    /\ api.op = "none"
    /\ tokens' = LoadTokens(env)
    /\ token_status' = InitialStatus(tokens')
    /\ g_fail' = [t \in Range(tokens') |-> 0]
    /\ g_since' = [t \in Range(tokens') |-> -1]
    /\ api' = [NoApi EXCEPT !.op = "load"]
    /\ UNCHANGED << dataVars, env, current_index, pool_lock, active_token, limiterVars, now, pc, call,
                    hist, calls, order >>

NextLoad == Load

SpecLoad == InitLoad /\ [][NextLoad]_vars

---------------------------------------------------------------------------
(* The pool driven directly: any sequence of get_next_token, report_failure *)
(* and report_success, with time passing in between.                       *)

PoolSteps == {30000, 60000}
Unknown == << "z" >>
Arguments == Range(tokens) \cup {None, Unknown}

ApiNext ==
    LET r == GetNextToken
    IN  /\ current_index' = r.index
        /\ api' = [NoApi EXCEPT !.op = "next", !.tok = r.token]
        /\ NoteNext(r.token)
        /\ UNCHANGED << dataVars, env, tokens, pool_lock, token_status, active_token, limiterVars, now,
                        pc, call, g_fail, g_since, calls, order >>

ApiReportFailure(token) ==
    /\ CanFail(token)
    /\ token_status' = ReportFailure(token)
    /\ api' = NoApi
    /\ NoteFailure(token)
    /\ UNCHANGED << dataVars, env, tokens, pool_lock, current_index, active_token, limiterVars, now,
                    pc, call, hist, calls, order >>

ApiReportSuccess(token) ==
    /\ token_status' = ReportSuccess(token)
    /\ api' = NoApi
    /\ NoteSuccess(token)
    /\ UNCHANGED << dataVars, env, tokens, pool_lock, current_index, active_token, limiterVars, now,
                    pc, call, hist, calls, order >>

NextPool ==
    \/ ApiNext
    \/ \E token \in Arguments : ApiReportFailure(token)
    \/ \E token \in Arguments : ApiReportSuccess(token)
    \/ \E d \in PoolSteps : Tick(d)

SpecPool == InitCommon /\ [][NextPool]_vars

---------------------------------------------------------------------------
(* AdaptiveRateLimiter.wait and backoff                                    *)

(* Variant: the factor is 1.5 *)
ScaledByHalf(interval) == (interval * 15) \div 10

(* current_interval * 1.2, in whole milliseconds *)
Scaled(interval) == (interval * 12) \div 10

(* Variant: backoff() without the clamp *)
BackoffUnclamped(interval) == Scaled(interval)

(* Variant: backoff() leaves the interval as it is *)
BackoffNoGrowth(interval) == interval

BackoffInterval(interval) == Min(Scaled(interval), max_interval)

(* Variant: the idle gap is compared with >= *)
RecoveredAtThreshold(time_since_last) == time_since_last >= recovery_timeout

Recovered(time_since_last) == time_since_last > recovery_timeout

(* Variant: wait() without the idle reset *)
WaitIntervalNoReset == current_interval

(* the interval wait() works with: reset after an idle gap *)
WaitInterval ==
    IF Recovered(now - last_request_time) THEN min_interval ELSE current_interval

(* Variant: wait() never sleeps *)
SleepTimeNone(interval) == 0

SleepTime(interval) ==
    LET time_since_last == now - last_request_time
    IN  IF time_since_last < interval THEN interval - time_since_last ELSE 0

(* Variant: wait() without its lock *)
WaitBeginUnlocked(p, next_pc) ==
    /\ limiter_lock' = p
    /\ current_interval' = WaitInterval
    /\ call' = [call EXCEPT ![p].wake = now + SleepTime(WaitInterval),
                             ![p].gap = now - last_request_time,
                             ![p].prev = current_interval,
                             ![p].seen = last_request_time]
    /\ pc' = [pc EXCEPT ![p] = next_pc]
    /\ api' = [NoApi EXCEPT !.op = "wait_begin", !.gap = now - last_request_time,
                            !.prev = current_interval]
    /\ UNCHANGED << dataVars, poolVars, active_token, last_request_time, now, ghostVars >>

(* wait(), up to the start of its sleep: p takes the lock, reads the       *)
(* clock, resets the interval after an idle gap and computes its sleep.    *)
WaitBegin(p, next_pc) ==
    /\ limiter_lock = 0
    /\ limiter_lock' = p
    /\ current_interval' = WaitInterval
    /\ call' = [call EXCEPT ![p].wake = now + SleepTime(WaitInterval),
                             ![p].gap = now - last_request_time,
                             ![p].prev = current_interval,
                             ![p].seen = last_request_time]
    /\ pc' = [pc EXCEPT ![p] = next_pc]
    /\ api' = [NoApi EXCEPT !.op = "wait_begin", !.gap = now - last_request_time,
                            !.prev = current_interval]
    /\ UNCHANGED << dataVars, poolVars, active_token, last_request_time, now, ghostVars >>

(* wait(), from the end of its sleep: p stamps last_request_time and       *)
(* releases the lock.                                                      *)
WaitEnd(p, next_pc) ==
    /\ limiter_lock = p
    /\ now >= call[p].wake
    /\ last_request_time' = now
    /\ limiter_lock' = 0
    /\ call' = [call EXCEPT ![p].wake = 0, ![p].gap = 0, ![p].prev = 0,
                             ![p].seen = 0]
    /\ pc' = [pc EXCEPT ![p] = next_pc]
    /\ api' = [NoApi EXCEPT !.op = "wait_end", !.gap = call[p].gap,
                            !.prev = call[p].prev, !.last = last_request_time]
    /\ UNCHANGED << dataVars, poolVars, active_token, current_interval, now, ghostVars >>

(* backoff(), under the lock *)
Backoff(p, next_pc) ==
    /\ limiter_lock = 0
    /\ current_interval' = BackoffInterval(current_interval)
    /\ pc' = [pc EXCEPT ![p] = next_pc]
    /\ api' = [NoApi EXCEPT !.op = "backoff", !.prev = current_interval]
    /\ UNCHANGED << dataVars, poolVars, active_token, last_request_time, limiter_lock,
                    now, call, ghostVars >>

---------------------------------------------------------------------------
(* The limiter driven directly by two threads: any interleaving of wait()  *)
(* and backoff(), with time passing in between.                            *)

LimiterSteps == {2000, 60000}

ApiWaitBegin(p) == pc[p] = "idle" /\ WaitBegin(p, "in_wait")
ApiWaitEnd(p)   == pc[p] = "in_wait" /\ WaitEnd(p, "idle")
ApiBackoff(p)   == pc[p] = "idle" /\ Backoff(p, "idle")

NextLimiter ==
    \/ \E p \in Procs : ApiWaitBegin(p)
    \/ \E p \in Procs : ApiWaitEnd(p)
    \/ \E p \in Procs : ApiBackoff(p)
    \/ \E d \in LimiterSteps : Tick(d)

InitLimiter == InitCommon /\ tokens = <<>>

SpecLimiter == InitLimiter /\ [][NextLimiter]_vars

---------------------------------------------------------------------------
(* Upstream failures: the exception the upstream function raises, by what  *)
(* its args[0] holds.  A payload is bytes or not; bytes decode as UTF-8 or *)
(* not; the text is a JSON document or not; the document is an object      *)
(* with or without error_code / error_description, or another JSON value.  *)

Absent == [type |-> "absent"]
Null == [type |-> "null"]
Str(words) == [type |-> "string", words |-> words]
Num(digits) == [type |-> "number", words |-> << digits >>]

(* the phrase the source looks for in error_description *)
ReLogin == "re-login"

Object(code, description) ==
    [shape |-> "object", error_code |-> code, error_description |-> description]

Garbage == [shape |-> "garbage"]

Bytes(utf8, text) == [type |-> "bytes", utf8 |-> utf8, text |-> text]

Errors ==
    [ token_expired |-> Bytes(TRUE, Object(Str(<<"400016">>), Str(<<"expired">>))),
      relogin       |-> Bytes(TRUE, Object(Str(<<"10020">>), Str(<<"please", ReLogin, "again">>))),
      relogin_only  |-> Bytes(TRUE, Object(Absent, Str(<<ReLogin>>))),
      code_only     |-> Bytes(TRUE, Object(Str(<<"400016">>), Absent)),
      code_null     |-> Bytes(TRUE, Object(Str(<<"400016">>), Null)),
      numeric_code  |-> Bytes(TRUE, Object(Num("400016"), Str(<<"expired">>))),
      other_code    |-> Bytes(TRUE, Object(Str(<<"10020">>), Str(<<"busy">>))),
      empty_object  |-> Bytes(TRUE, Object(Absent, Absent)),
      null_text     |-> Bytes(TRUE, Object(Str(<<"10020">>), Null)),
      array         |-> Bytes(TRUE, [shape |-> "array"]),
      not_json      |-> Bytes(TRUE, Garbage),
      not_utf8      |-> Bytes(FALSE, Garbage),
      text          |-> [type |-> "str", utf8 |-> TRUE, text |-> Garbage],
      no_args       |-> [type |-> "none", utf8 |-> TRUE, text |-> Garbage] ]

ErrorNames == DOMAIN Errors

(* e.args[0].decode('utf-8') *)
Decode(payload) ==
    IF payload.utf8 THEN [ok |-> TRUE, text |-> payload.text]
    ELSE [ok |-> FALSE, text |-> Garbage]

(* json.loads(text) *)
Loads(text) ==
    IF text.shape = "garbage" THEN [ok |-> FALSE, value |-> Garbage]
    ELSE [ok |-> TRUE, value |-> text]

(* error_data.get(key, default) *)
Get(error_data, key, default) ==
    LET v == IF key = "error_code" THEN error_data.error_code
             ELSE error_data.error_description
    IN  IF v = Absent THEN default ELSE v

(* phrase in value, for a string value *)
Contains(value, phrase) == phrase \in Range(value.words)

AuthExpired == "ValueError"

(* Variant: only the error code is inspected *)
ClassifyByCodeOnly(err) ==
    LET payload == Errors[err]
    IN  IF payload.type # "bytes" THEN err
        ELSE IF ~Decode(payload).ok THEN err
        ELSE IF ~Loads(Decode(payload).text).ok THEN err
        ELSE LET error_data == Loads(Decode(payload).text).value
             IN  IF error_data.shape # "object" THEN "AttributeError"
                 ELSE IF Get(error_data, "error_code", Absent) = Str(<<"400016">>)
                      THEN AuthExpired
                 ELSE err

(* The except block of the retry: what rate_limited_call raises for the    *)
(* exception e = retry_e named by err; an error name stands for that       *)
(* exception itself, re-raised.                                            *)
Classify(err) ==
    LET payload == Errors[err]
    IN  IF payload.type # "bytes" THEN err
        ELSE IF ~Decode(payload).ok THEN err
        ELSE IF ~Loads(Decode(payload).text).ok THEN err
        ELSE LET error_data == Loads(Decode(payload).text).value
             IN  IF error_data.shape # "object" THEN "AttributeError"
                 ELSE IF Get(error_data, "error_code", Absent) = Str(<<"400016">>)
                      THEN AuthExpired
                 ELSE LET description == Get(error_data, "error_description", Str(<<>>))
                      IN  IF description.type # "string" THEN "TypeError"
                          ELSE IF Contains(description, ReLogin) THEN AuthExpired
                          ELSE err

---------------------------------------------------------------------------
(* rate_limited_call, one step per statement that touches shared state     *)

Results == {"x", "y"}

Entry(op, tok, val) == [op |-> op, tok |-> tok, val |-> val]

Logged(p, op, tok) == Append(call[p].log, Entry(op, tok, "none"))

Goto(p, label) == pc' = [pc EXCEPT ![p] = label]

(* the call begins: _rate_limiter.wait() *)
Invoke(p) ==
    /\ pc[p] = "idle"
    /\ calls < MaxCalls
    /\ calls' = calls + 1
    /\ limiter_lock = 0
    /\ limiter_lock' = p
    /\ current_interval' = WaitInterval
    /\ call' = [call EXCEPT ![p] =
                   [IdleCall EXCEPT !.wake = now + SleepTime(WaitInterval),
                                    !.gap = now - last_request_time,
                                    !.prev = current_interval,
                                    !.seen = last_request_time]]
    /\ Goto(p, "waiting")
    /\ api' = NoApi
    /\ UNCHANGED << dataVars, poolVars, active_token, last_request_time, now, hist,
                    g_fail, g_since, order >>

Waited(p) ==
    /\ pc[p] = "waiting"
    /\ limiter_lock = p
    /\ now >= call[p].wake
    /\ last_request_time' = now
    /\ limiter_lock' = 0
    /\ call' = [call EXCEPT ![p].wake = 0, ![p].seen = 0, ![p].base = current_interval]
    /\ Goto(p, "get1")
    /\ api' = NoApi
    /\ UNCHANGED << dataVars, poolVars, active_token, current_interval, now, ghostVars >>

(* Variant: apply_token calls set_token whatever get_next_token returned *)
AcquireAlwaysSet(p, at, set, run) ==
    LET r == GetNextToken
    IN  /\ pc[p] = at
        /\ current_index' = r.index
        /\ call' = [call EXCEPT ![p].cur   = IF at = "get1" THEN r.token ELSE @,
                                 ![p].retry = IF at = "get2" THEN r.token ELSE @,
                                 ![p].log   = Logged(p, "next", r.token)]
        /\ Goto(p, set)
        /\ api' = NoApi
        /\ NoteNext(r.token)
        /\ UNCHANGED << dataVars, env, tokens, pool_lock, token_status, active_token, limiterVars, now,
                        g_fail, g_since, calls, order >>

(* apply_token: token = self.get_next_token() *)
Acquire(p, at, set, run) ==
    LET r == GetNextToken
    IN  /\ pc[p] = at
        /\ current_index' = r.index
        /\ call' = [call EXCEPT ![p].cur   = IF at = "get1" THEN r.token ELSE @,
                                 ![p].retry = IF at = "get2" THEN r.token ELSE @,
                                 ![p].log   = Logged(p, "next", r.token)]
        /\ Goto(p, IF r.token # None THEN set ELSE run)
        /\ api' = NoApi
        /\ NoteNext(r.token)
        /\ UNCHANGED << dataVars, env, tokens, pool_lock, token_status, active_token, limiterVars, now,
                        g_fail, g_since, calls, order >>

(* apply_token: ball.set_token(token) *)
Apply(p, at, run) ==
    LET token == IF at = "set1" THEN call[p].cur ELSE call[p].retry
    IN  /\ pc[p] = at
        /\ active_token' = token
        /\ call' = [call EXCEPT ![p].log = Logged(p, "set_token", token)]
        /\ Goto(p, run)
        /\ api' = NoApi
        /\ UNCHANGED << dataVars, poolVars, limiterVars, now, ghostVars >>

(* the upstream function returns *)
UpstreamReturns(p, at, ok, result) ==
    /\ pc[p] = at
    /\ call' = [call EXCEPT ![p].result = result,
                             ![p].log = Append(@, Entry("upstream_ok", active_token, result))]
    /\ Goto(p, ok)
    /\ api' = NoApi
    /\ UNCHANGED << dataVars, poolVars, active_token, limiterVars, now, ghostVars >>

(* the upstream function raises *)
UpstreamRaises(p, at, failed, err) ==
    /\ pc[p] = at
    /\ call' = [call EXCEPT ![p].err = err,
                             ![p].log = Append(@, Entry("upstream_err", active_token, err))]
    /\ Goto(p, failed)
    /\ api' = NoApi
    /\ UNCHANGED << dataVars, poolVars, active_token, limiterVars, now, ghostVars >>

(* if token: report_success(token); return result *)
Succeed(p, at) ==
    LET token == IF at = "ok1" THEN call[p].cur ELSE call[p].retry
    IN  /\ pc[p] = at
        /\ token_status' = IF token # None THEN ReportSuccess(token) ELSE token_status
        /\ call' = [call EXCEPT ![p].outcome = "returned",
                                 ![p].returned = call[p].result,
                                 ![p].log = IF token # None
                                            THEN Logged(p, "report_success", token)
                                            ELSE @]
        /\ Goto(p, "done")
        /\ api' = NoApi
        /\ IF token # None THEN NoteSuccess(token) ELSE UNCHANGED << g_fail, g_since >>
        /\ UNCHANGED << dataVars, env, tokens, pool_lock, current_index, active_token, limiterVars, now, hist, calls, order >>

(* except Exception: _rate_limiter.backoff() *)
BackOff(p) ==
    /\ pc[p] = "failed1"
    /\ limiter_lock = 0
    /\ current_interval' = BackoffInterval(current_interval)
    /\ call' = [call EXCEPT ![p].log = Logged(p, "backoff", None)]
    /\ Goto(p, "report1")
    /\ api' = NoApi
    /\ UNCHANGED << dataVars, poolVars, active_token, last_request_time, limiter_lock,
                    now, ghostVars >>

(* if current_token: report_failure(current_token); time.sleep(2.0) begins *)
ReportFirst(p) ==
    LET token == call[p].cur
    IN  /\ pc[p] = "report1"
        /\ token # None => CanFail(token)
        /\ token_status' = IF token # None THEN ReportFailure(token) ELSE token_status
        /\ call' = [call EXCEPT ![p].wake = now + RetryDelay,
                                 ![p].log = IF token # None
                                            THEN Logged(p, "report_failure", token)
                                            ELSE @]
        /\ Goto(p, "sleeping")
        /\ api' = NoApi
        /\ IF token # None THEN NoteFailure(token) ELSE UNCHANGED << g_fail, g_since >>
        /\ UNCHANGED << dataVars, env, tokens, pool_lock, current_index, active_token, limiterVars, now, hist, calls, order >>

(* Variant: the retry runs without applying a token again *)
SleptNoReacquire(p) ==
    /\ pc[p] = "sleeping"
    /\ now >= call[p].wake
    /\ call' = [call EXCEPT ![p].wake = 0]
    /\ Goto(p, "call2")
    /\ api' = NoApi
    /\ UNCHANGED << dataVars, poolVars, active_token, limiterVars, now, ghostVars >>

(* Variant: the end of the sleep stamps last_request_time as wait() does *)
SleptStamping(p) ==
    /\ pc[p] = "sleeping"
    /\ now >= call[p].wake
    /\ last_request_time' = now
    /\ call' = [call EXCEPT ![p].wake = 0]
    /\ Goto(p, "get2")
    /\ api' = NoApi
    /\ UNCHANGED << dataVars, poolVars, active_token, current_interval, limiter_lock, now,
                    ghostVars >>

(* time.sleep(2.0) ends *)
Slept(p) ==
    /\ pc[p] = "sleeping"
    /\ now >= call[p].wake
    /\ call' = [call EXCEPT ![p].wake = 0]
    /\ Goto(p, "get2")
    /\ api' = NoApi
    /\ UNCHANGED << dataVars, poolVars, active_token, limiterVars, now, ghostVars >>

(* Variant: a failed retry is retried again *)
GiveUpAndRetry(p) ==
    LET token == call[p].retry
    IN  /\ pc[p] = "failed2"
        /\ token # None => CanFail(token)
        /\ token_status' = IF token # None THEN ReportFailure(token) ELSE token_status
        /\ call' = [call EXCEPT ![p].log = IF token # None
                                            THEN Logged(p, "report_failure", token)
                                            ELSE @]
        /\ Goto(p, "get2")
        /\ api' = NoApi
        /\ IF token # None THEN NoteFailure(token) ELSE UNCHANGED << g_fail, g_since >>
        /\ UNCHANGED << dataVars, env, tokens, pool_lock, current_index, active_token, limiterVars, now, hist, calls, order >>

(* Variant: the second failure backs the limiter off as the first one does *)
GiveUpBackingOff(p) ==
    LET token == call[p].retry
    IN  /\ pc[p] = "failed2"
        /\ token # None => CanFail(token)
        /\ token_status' = IF token # None THEN ReportFailure(token) ELSE token_status
        /\ current_interval' = BackoffInterval(current_interval)
        /\ call' = [call EXCEPT ![p].outcome = "raised",
                                 ![p].raised = Classify(call[p].err),
                                 ![p].log = IF token # None
                                            THEN Logged(p, "report_failure", token)
                                            ELSE @]
        /\ Goto(p, "done")
        /\ api' = NoApi
        /\ IF token # None THEN NoteFailure(token) ELSE UNCHANGED << g_fail, g_since >>
        /\ UNCHANGED << dataVars, env, tokens, pool_lock, current_index, active_token,
                        last_request_time, limiter_lock, now, hist, calls, order >>

(* except Exception as retry_e: report_failure(retry_token); classify; raise *)
GiveUp(p) ==
    LET token == call[p].retry
    IN  /\ pc[p] = "failed2"
        /\ token # None => CanFail(token)
        /\ token_status' = IF token # None THEN ReportFailure(token) ELSE token_status
        /\ call' = [call EXCEPT ![p].outcome = "raised",
                                 ![p].raised = Classify(call[p].err),
                                 ![p].log = IF token # None
                                            THEN Logged(p, "report_failure", token)
                                            ELSE @]
        /\ Goto(p, "done")
        /\ api' = NoApi
        /\ IF token # None THEN NoteFailure(token) ELSE UNCHANGED << g_fail, g_since >>
        /\ UNCHANGED << dataVars, env, tokens, pool_lock, current_index, active_token, limiterVars, now, hist, calls, order >>

(* the caller has its result or its exception *)
Return(p) ==
    /\ pc[p] = "done"
    /\ call' = [call EXCEPT ![p] = IdleCall]
    /\ Goto(p, "idle")
    /\ api' = NoApi
    /\ UNCHANGED << dataVars, poolVars, active_token, limiterVars, now, ghostVars >>

Step(p) ==
    \/ Invoke(p)
    \/ Waited(p)
    \/ Acquire(p, "get1", "set1", "call1")
    \/ Apply(p, "set1", "call1")
    \/ \E result \in Results : UpstreamReturns(p, "call1", "ok1", result)
    \/ UpstreamRaises(p, "call1", "failed1", "text")
    \/ Succeed(p, "ok1")
    \/ BackOff(p)
    \/ ReportFirst(p)
    \/ Slept(p)
    \/ Acquire(p, "get2", "set2", "call2")
    \/ Apply(p, "set2", "call2")
    \/ \E result \in Results : UpstreamReturns(p, "call2", "ok2", result)
    \/ \E err \in ErrorNames : UpstreamRaises(p, "call2", "failed2", err)
    \/ Succeed(p, "ok2")
    \/ GiveUp(p)
    \/ Return(p)

(* Time passes while a caller sleeps, until its sleep is over, and between *)
(* two calls; the upstream function and the statements in between take no  *)
(* time.                                                                   *)
SleepSteps == {2000}
IdleSteps  == {30000, 62000}

Asleep(p) == pc[p] \in {"waiting", "sleeping"} /\ now < call[p].wake

Elapse(d) ==
    /\ \/ d \in SleepSteps /\ \E p \in Procs : Asleep(p)
       \/ d \in IdleSteps /\ \A p \in Procs : pc[p] = "idle"
    /\ \A p \in Procs : pc[p] = "idle" \/ Asleep(p)
    /\ Tick(d)

(* One caller at a time: logical calls one after the other *)
Next ==
    \/ Step(1)
    \/ \E d \in SleepSteps \cup IdleSteps : Elapse(d)

(* The gateway starts in a fresh process, or after earlier calls: the      *)
(* first attempts of k earlier calls failed and their retries succeeded,   *)
(* every token succeeded since its last failure, and the last wait() was   *)
(* WarmGap ago.                                                            *)
WarmGap == 2000

RECURSIVE BackedOff(_)
BackedOff(k) == IF k = 0 THEN min_interval ELSE BackoffInterval(BackedOff(k - 1))

MaxBackoffs == 10

InitGateway ==
    /\ env \in Envs
    /\ tokens = LoadTokens(env)
    /\ current_index = 0
    /\ token_status = InitialStatus(tokens)
    /\ \/ /\ current_interval = min_interval
          /\ last_request_time = 0
          /\ active_token = None
       \/ /\ \E k \in 1..MaxBackoffs : current_interval = BackedOff(k)
          /\ last_request_time = StartTime - WarmGap
          /\ active_token = IF tokens = <<>> THEN None ELSE tokens[Len(tokens)]
    /\ limiter_lock = 0
    /\ pool_lock = 0
    /\ now = StartTime
    /\ pc = [p \in Procs |-> "idle"]
    /\ call = [p \in Procs |-> IdleCall]
    /\ api = NoApi
    /\ hist = <<>>
    /\ g_fail = [t \in Range(tokens) |-> 0]
    /\ g_since = [t \in Range(tokens) |-> -1]
    /\ calls = 0
    /\ order = NoOrder
    /\ args = NoArgs
    /\ processed = Pending

Spec == InitGateway /\ [][Next]_vars

---------------------------------------------------------------------------
(* rate_limited_call called by two threads at once: the same statements,   *)
(* with the taking of each lock ("with self._lock:") as a step of its own, *)
(* so that a thread can be between any two of them when the other runs.    *)

ConcErrors == {"text", "token_expired"}

(* rate_limited_call is entered and calls _rate_limiter.wait(); the call   *)
(* gets the number of its arrival                                          *)
CCall(p) ==
    /\ pc[p] = "idle"
    /\ calls < MaxConcCalls
    /\ calls' = calls + 1
    /\ call' = [call EXCEPT ![p] = [IdleCall EXCEPT !.ticket = calls + 1]]
    /\ Goto(p, "wait")
    /\ api' = NoApi
    /\ UNCHANGED << dataVars, poolVars, active_token, limiterVars, now, hist,
                    g_fail, g_since, order >>

(* Variant: the limiter's lock is entered whoever holds it *)
LockLimiterAnyway(p, at, to) ==
    /\ pc[p] = at
    /\ limiter_lock' = p
    /\ order' = IF at = "wait"
                THEN [order EXCEPT !.admitted = Append(@, call[p].ticket)]
                ELSE order
    /\ Goto(p, to)
    /\ api' = NoApi
    /\ UNCHANGED << dataVars, poolVars, active_token, current_interval, last_request_time,
                    now, call, hist, g_fail, g_since, calls >>

(* with self._lock: of the limiter, in wait() and in backoff() *)
LockLimiter(p, at, to) ==
    /\ pc[p] = at
    /\ limiter_lock = 0
    /\ limiter_lock' = p
    /\ order' = IF at = "wait"
                THEN [order EXCEPT !.admitted = Append(@, call[p].ticket)]
                ELSE order
    /\ Goto(p, to)
    /\ api' = NoApi
    /\ UNCHANGED << dataVars, poolVars, active_token, current_interval, last_request_time,
                    now, call, hist, g_fail, g_since, calls >>

(* wait() under the lock, up to the start of its sleep *)
CWaitCompute(p) ==
    /\ pc[p] = "wait_in"
    /\ current_interval' = WaitInterval
    /\ call' = [call EXCEPT ![p].wake = now + SleepTime(WaitInterval),
                             ![p].gap = now - last_request_time,
                             ![p].prev = current_interval,
                             ![p].seen = last_request_time]
    /\ Goto(p, "waiting")
    /\ api' = NoApi
    /\ UNCHANGED << dataVars, poolVars, active_token, last_request_time, limiter_lock,
                    now, ghostVars >>

(* wait() from the end of its sleep: stamp, leave the lock *)
CWaited(p) ==
    /\ pc[p] = "waiting"
    /\ now >= call[p].wake
    /\ last_request_time' = now
    /\ limiter_lock' = 0
    /\ call' = [call EXCEPT ![p].wake = 0, ![p].seen = 0, ![p].base = current_interval]
    /\ order' = [order EXCEPT !.completed = Append(@, call[p].ticket)]
    /\ Goto(p, "get1")
    /\ api' = NoApi
    /\ UNCHANGED << dataVars, poolVars, active_token, current_interval, now, hist,
                    g_fail, g_since, calls >>

(* Variant: the pool's lock is not taken *)
LockPoolSkipped(p, at, to) ==
    /\ pc[p] = at
    /\ Goto(p, to)
    /\ api' = NoApi
    /\ UNCHANGED << dataVars, poolVars, active_token, limiterVars, now, call, ghostVars >>

(* with self._lock: of the pool, in get_next_token, report_failure and     *)
(* report_success                                                          *)
LockPool(p, at, to) ==
    /\ pc[p] = at
    /\ pool_lock = 0
    /\ pool_lock' = p
    /\ Goto(p, to)
    /\ api' = NoApi
    /\ UNCHANGED << dataVars, env, tokens, current_index, token_status, active_token,
                    limiterVars, now, call, ghostVars >>

(* get_next_token under the lock: scan, move the cursor, leave the lock *)
CNext(p, at, set) ==
    LET r == GetNextToken
    IN  /\ pc[p] = at
        /\ current_index' = r.index
        /\ pool_lock' = 0
        /\ call' = [call EXCEPT ![p].cur   = IF at = "get1_in" THEN r.token ELSE @,
                                 ![p].retry = IF at = "get2_in" THEN r.token ELSE @,
                                 ![p].log   = Logged(p, "next", r.token)]
        /\ Goto(p, set)
        /\ api' = NoApi
        /\ NoteNext(r.token)
        /\ UNCHANGED << dataVars, env, tokens, token_status, active_token, limiterVars, now,
                        g_fail, g_since, calls, order >>

(* report_success under the lock; return result *)
CReportSuccess(p, at) ==
    LET token == IF at = "ok1_in" THEN call[p].cur ELSE call[p].retry
    IN  /\ pc[p] = at
        /\ token_status' = ReportSuccess(token)
        /\ pool_lock' = 0
        /\ call' = [call EXCEPT ![p].outcome = "returned",
                                 ![p].returned = call[p].result,
                                 ![p].log = Logged(p, "report_success", token)]
        /\ Goto(p, "done")
        /\ api' = NoApi
        /\ NoteSuccess(token)
        /\ UNCHANGED << dataVars, env, tokens, current_index, active_token, limiterVars, now,
                        hist, calls, order >>

(* Variant: backoff goes on to the report with the limiter's lock held *)
CBackoffHolding(p) ==
    /\ pc[p] = "failed1_in"
    /\ current_interval' = BackoffInterval(current_interval)
    /\ call' = [call EXCEPT ![p].log = Logged(p, "backoff", None)]
    /\ Goto(p, "report1")
    /\ api' = NoApi
    /\ UNCHANGED << dataVars, poolVars, active_token, last_request_time, limiter_lock, now,
                    ghostVars >>

(* backoff under the lock *)
CBackoff(p) ==
    /\ pc[p] = "failed1_in"
    /\ current_interval' = BackoffInterval(current_interval)
    /\ limiter_lock' = 0
    /\ call' = [call EXCEPT ![p].log = Logged(p, "backoff", None)]
    /\ Goto(p, "report1")
    /\ api' = NoApi
    /\ UNCHANGED << dataVars, poolVars, active_token, last_request_time, now, ghostVars >>

(* report_failure(current_token) under the lock; time.sleep(2.0) begins *)
CReportFirst(p) ==
    LET token == call[p].cur
    IN  /\ pc[p] = "report1_in"
        /\ CanFail(token)
        /\ token_status' = ReportFailure(token)
        /\ pool_lock' = 0
        /\ call' = [call EXCEPT ![p].wake = now + RetryDelay,
                                 ![p].log = Logged(p, "report_failure", token)]
        /\ Goto(p, "sleeping")
        /\ api' = NoApi
        /\ NoteFailure(token)
        /\ UNCHANGED << dataVars, env, tokens, current_index, active_token, limiterVars, now,
                        hist, calls, order >>

(* report_failure(retry_token) under the lock; classify; raise *)
CGiveUp(p) ==
    LET token == call[p].retry
    IN  /\ pc[p] = "failed2_in"
        /\ CanFail(token)
        /\ token_status' = ReportFailure(token)
        /\ pool_lock' = 0
        /\ call' = [call EXCEPT ![p].outcome = "raised",
                                 ![p].raised = Classify(call[p].err),
                                 ![p].log = Logged(p, "report_failure", token)]
        /\ Goto(p, "done")
        /\ api' = NoApi
        /\ NoteFailure(token)
        /\ UNCHANGED << dataVars, env, tokens, current_index, active_token, limiterVars, now,
                        hist, calls, order >>

CStep(p) ==
    \/ CCall(p)
    \/ LockLimiter(p, "wait", "wait_in")
    \/ CWaitCompute(p)
    \/ CWaited(p)
    \/ tokens = <<>> /\ Acquire(p, "get1", "set1", "call1")
    \/ tokens # <<>> /\ LockPool(p, "get1", "get1_in")
    \/ CNext(p, "get1_in", "set1")
    \/ Apply(p, "set1", "call1")
    \/ UpstreamReturns(p, "call1", "ok1", "x")
    \/ UpstreamRaises(p, "call1", "failed1", "text")
    \/ call[p].cur = None /\ Succeed(p, "ok1")
    \/ call[p].cur # None /\ LockPool(p, "ok1", "ok1_in")
    \/ CReportSuccess(p, "ok1_in")
    \/ LockLimiter(p, "failed1", "failed1_in")
    \/ CBackoff(p)
    \/ call[p].cur = None /\ ReportFirst(p)
    \/ call[p].cur # None /\ LockPool(p, "report1", "report1_in")
    \/ CReportFirst(p)
    \/ Slept(p)
    \/ tokens = <<>> /\ Acquire(p, "get2", "set2", "call2")
    \/ tokens # <<>> /\ LockPool(p, "get2", "get2_in")
    \/ CNext(p, "get2_in", "set2")
    \/ Apply(p, "set2", "call2")
    \/ UpstreamReturns(p, "call2", "ok2", "y")
    \/ \E err \in ConcErrors : UpstreamRaises(p, "call2", "failed2", err)
    \/ call[p].retry = None /\ Succeed(p, "ok2")
    \/ call[p].retry # None /\ LockPool(p, "ok2", "ok2_in")
    \/ CReportSuccess(p, "ok2_in")
    \/ call[p].retry = None /\ GiveUp(p)
    \/ call[p].retry # None /\ LockPool(p, "failed2", "failed2_in")
    \/ CGiveUp(p)
    \/ Return(p)

(* a caller that waits for the limiter's lock while another holds it *)
Blocked(p) == pc[p] \in {"wait", "failed1"} /\ limiter_lock \notin {0, p}

(* Time passes while a caller sleeps and every other caller is idle,       *)
(* asleep or waiting for a lock.                                           *)
CElapse(d) ==
    /\ \E p \in Procs : Asleep(p)
    /\ \A p \in Procs : pc[p] = "idle" \/ Asleep(p) \/ Blocked(p)
    /\ Tick(d)

NextConc ==
    \/ \E p \in Procs : CStep(p)
    \/ \E d \in SleepSteps : CElapse(d)

InitConc == InitCommon /\ tokens \in { <<>>, << <<"a">>, <<"b">> >> }

SpecConc == InitConc /\ [][NextConc]_vars

(* The scheduling the termination of a call rests on: a thread in a call   *)
(* that can take its next statement again and again takes it. For a        *)
(* statement other than entering a lock, which stays possible until it is  *)
(* taken, this says that upstream executions and sleeps end; for entering  *)
(* a lock it says that the lock is fair. Time passes while threads sleep,  *)
(* and nothing obliges a thread to begin a call.                           *)
Running(p) == CStep(p) /\ pc[p] # "idle"

SpecConcFair ==
    /\ SpecConc
    /\ \A p \in Procs : SF_vars(Running(p))
    /\ WF_vars(\E d \in SleepSteps : CElapse(d))

---------------------------------------------------------------------------
(* Response normalization                                                  *)
(*                                                                         *)
(* JSON documents, as the upstream functions return them: None, numbers,   *)
(* strings, dicts and lists.  A number is m x 10^e with at most 9 digits   *)
(* in m, and an int or a float as in Python.  A string is its              *)
(* blank-separated words.                                                  *)

RECURSIVE Pow10(_)
Pow10(k) == IF k = 0 THEN 1 ELSE 10 * Pow10(k - 1)

RECURSIVE Digits(_)
Digits(m) == IF m = 0 THEN 0 ELSE IF m < 0 THEN Digits(-m) ELSE 1 + Digits(m \div 10)

(* the same number with no trailing zero in m *)
RECURSIVE Norm(_, _, _)
Norm(kind, m, e) ==
    IF m = 0 THEN [type |-> kind, m |-> 0, e |-> 0]
    ELSE IF m % 10 = 0 THEN Norm(kind, m \div 10, e + 1)
    ELSE [type |-> kind, m |-> m, e |-> e]

PyInt(m, e)   == Norm("int", m, e)
PyFloat(m, e) == Norm("float", m, e)

Dict(items) == [type |-> "dict", items |-> items]
List(elems) == [type |-> "list", elems |-> elems]

(* strftime('%Y-%m-%d %H:%M:%S') of the epoch time sec: its whole seconds  *)
(* (with 9 digits an epoch time has no fraction of a second); and the two  *)
(* words split(' ') makes of it                                            *)
DateTime(sec) ==
    LET whole == IF sec.e >= 0 THEN sec ELSE Norm(sec.type, sec.m \div Pow10(-sec.e), 0)
    IN  [type |-> "string", datetime |-> [m |-> whole.m, e |-> whole.e]]

DatePart(text) == [type |-> "string", date |-> text.datetime]
TimePart(text) == [type |-> "string", time |-> text.datetime]

(* an exception leaves the function *)
Raised(error) == [type |-> "raised", error |-> error]

IsNumber(v) == v.type \in {"int", "float"}
IsRaised(v) == v.type = "raised"

(* bool(v) *)
Truthy(v) ==
    IF v.type = "null" THEN FALSE
    ELSE IF v.type = "bool" THEN v.value
    ELSE IF IsNumber(v) THEN v.m # 0
    ELSE IF v.type = "dict" THEN DOMAIN v.items # {}
    ELSE IF v.type = "list" THEN v.elems # <<>>
    ELSE IF v.type = "string" /\ "words" \in DOMAIN v THEN v.words # <<>>
    ELSE TRUE

(* a > b for a number a and a positive number b *)
Greater(a, b) ==
    /\ a.m > 0
    /\ LET mag_a == Digits(a.m) + a.e
           mag_b == Digits(b.m) + b.e
       IN  IF mag_a # mag_b THEN mag_a > mag_b
           ELSE a.m * Pow10(9 - Digits(a.m)) > b.m * Pow10(9 - Digits(b.m))

(* a >= b *)
AtLeast(a, b) == (a.m = b.m /\ a.e = b.e) \/ Greater(a, b)

(* abs(val) *)
Abs(val) == [val EXCEPT !.m = IF @ < 0 THEN -@ ELSE @]

(* val / 10^k, a float *)
DividedBy(val, k) == PyFloat(val.m, val.e - k)

(* round(val, 2): an int stays as it is, a float keeps two decimals.  A    *)
(* tie goes to the even neighbour when the float is the decimal exactly    *)
(* (0.125, 0.375); the numbers explored hold no other tie.                 *)
Round2(val) ==
    LET d == Pow10(-2 - val.e)
        q == val.m \div d
        r == val.m % d
        nearest == IF 2 * r < d THEN q
                   ELSE IF 2 * r > d THEN q + 1
                   ELSE IF q % 2 = 0 THEN q ELSE q + 1
    IN  IF val.e >= -2 THEN val
        ELSE IF -2 - val.e > 9 THEN Norm(val.type, 0, 0)
        ELSE Norm(val.type, nearest, -2)

(* datetime.datetime.fromtimestamp(val).strftime('%Y-%m-%d %H:%M:%S');     *)
(* datetime.MAXYEAR: the last second of the year 9999, to 10^5 s           *)
FromTimestamp(val) ==
    LET MaxEpoch == PyInt(2534023, 5)
    IN  IF Greater(val, MaxEpoch) THEN Raised("ValueError") ELSE DateTime(val)

SecondsEpoch   == PyInt(1, 9)     \* 1000000000
MillisEpoch    == PyInt(1, 12)    \* 1000000000000
Wan            == PyInt(1, 4)     \* 10000
Yi             == PyInt(1, 8)     \* 100000000

(* timestamp_to_datetime *)
TimestampToDatetime(ts) ==
    IF ts.type = "null" THEN Null
    ELSE IF IsNumber(ts) /\ Greater(ts, MillisEpoch) THEN FromTimestamp(DividedBy(ts, 3))
    ELSE IF IsNumber(ts) /\ Greater(ts, SecondsEpoch) THEN FromTimestamp(ts)
    ELSE ts

(* format_number with thresholds that a value has to exceed *)
FormatNumberExclusive(val, unit) ==
    IF val.type = "null" THEN Null
    ELSE IF ~IsNumber(val) THEN val
    ELSE IF unit = "raw" THEN val
    ELSE LET abs_val == Abs(val)
         IN  IF unit = "yi" \/ (unit = "auto" /\ Greater(abs_val, Yi))
             THEN Round2(DividedBy(val, 8))
             ELSE IF unit = "wan" \/ (unit = "auto" /\ Greater(abs_val, Wan))
             THEN Round2(DividedBy(val, 4))
             ELSE Round2(val)

(* format_number *)
FormatNumber(val, unit) ==
    IF val.type = "null" THEN Null
    ELSE IF ~IsNumber(val) THEN val
    ELSE IF unit = "raw" THEN val
    ELSE LET abs_val == Abs(val)
         IN  IF unit = "yi" \/ (unit = "auto" /\ AtLeast(abs_val, Yi))
             THEN Round2(DividedBy(val, 8))
             ELSE IF unit = "wan" \/ (unit = "auto" /\ AtLeast(abs_val, Wan))
             THEN Round2(DividedBy(val, 4))
             ELSE Round2(val)

(* key == 'timestamp' or key.endswith('_date'), for the keys of the        *)
(* documents explored                                                      *)
IsTimeKey(key) == key = "timestamp" \/ key \in {"_date", "report_date", "list_date"}

(* the first exception among the values of a dict or a list, if any *)
FirstRaised(values) ==
    IF \E v \in values : IsRaised(v)
    THEN CHOOSE v \in values : IsRaised(v)
    ELSE Null

(* convert_timestamps *)
RECURSIVE ConvertTimestamps(_)
ConvertTimestamps(data) ==
    IF data.type = "dict"
    THEN LET converted ==
                 [key \in DOMAIN data.items |->
                     LET value == data.items[key]
                     IN  IF IsTimeKey(key) /\ IsNumber(value) /\ Greater(value, MillisEpoch)
                         THEN FromTimestamp(DividedBy(value, 3))
                         ELSE IF IsTimeKey(key) /\ IsNumber(value) /\ Greater(value, SecondsEpoch)
                         THEN FromTimestamp(value)
                         ELSE IF value.type \in {"dict", "list"}
                         THEN ConvertTimestamps(value)
                         ELSE value]
             failed == FirstRaised({ converted[key] : key \in DOMAIN converted })
         IN  IF failed # Null THEN failed ELSE Dict(converted)
    ELSE IF data.type = "list"
    THEN LET converted == [i \in 1..Len(data.elems) |-> ConvertTimestamps(data.elems[i])]
             failed == FirstRaised({ converted[i] : i \in 1..Len(data.elems) })
         IN  IF failed # Null THEN failed ELSE List(converted)
    ELSE data

(* True and False, as process_config holds them *)
Bool(value) == [type |-> "bool", value |-> value]

(* a one-word string *)
Word(w) == Str(<< w >>)

EmptyDict == Dict(<<>>)
EmptyList == List(<<>>)

(* d.get(key, default): only a dict has get *)
DictGet(d, key, default) ==
    IF d.type # "dict" THEN Raised("AttributeError")
    ELSE IF key \in DOMAIN d.items THEN d.items[key] ELSE default

(* key in container, for a dict, a list and a string of words; None and    *)
(* numbers raise TypeError, see NotIterable                                *)
In(key, container) ==
    IF container.type = "dict" THEN key \in DOMAIN container.items
    ELSE IF container.type = "list"
    THEN \E i \in 1..Len(container.elems) : container.elems[i] = Word(key)
    ELSE "words" \in DOMAIN container
         /\ \E i \in 1..Len(container.words) : container.words[i] = key

NotIterable(v) == v.type \in {"null", "int", "float", "bool"}

(* text.split(' ')[n - 1] *)
SplitWord(text, n) ==
    IF text.type # "string" THEN Raised("AttributeError")
    ELSE IF "datetime" \in DOMAIN text
    THEN IF n = 1 THEN DatePart(text) ELSE TimePart(text)
    ELSE IF "words" \in DOMAIN text
    THEN IF n <= Len(text.words) THEN Word(text.words[n]) ELSE Raised("IndexError")
    ELSE IF n = 1 THEN text ELSE Raised("IndexError")

(* the exception of the first element that raised, None if none did *)
FirstRaisedIn(seq) ==
    IF \E i \in 1..Len(seq) : IsRaised(seq[i])
    THEN seq[CHOOSE i \in 1..Len(seq) :
                 IsRaised(seq[i]) /\ \A j \in 1..(i - 1) : ~IsRaised(seq[j])]
    ELSE Null

(* a list of rows, or the exception that ended the loop *)
Rows(rows) ==
    IF FirstRaisedIn(rows) # Null THEN FirstRaisedIn(rows) ELSE List(rows)

(* a + b (sign 1) and a - b (sign -1): numbers only *)
Plus(a, b, sign) ==
    LET e == IF a.e < b.e THEN a.e ELSE b.e
        kind == IF a.type = "float" \/ b.type = "float" THEN "float" ELSE "int"
    IN  IF IsRaised(a) THEN a
        ELSE IF IsRaised(b) THEN b
        ELSE IF ~IsNumber(a) \/ ~IsNumber(b) THEN Raised("TypeError")
        ELSE Norm(kind, a.m * Pow10(a.e - e) + sign * b.m * Pow10(b.e - e), e)

Zero == PyInt(0, 0)

(* a list of column names; they are written in ASCII, wan for 10^4 and yi  *)
(* for 10^8                                                                *)
Names(columns) == List([i \in 1..Len(columns) |-> Word(columns[i])])

(* a row of simplify_quote_data that leaves out what the item lacks *)
QuoteRowPresent(item) ==
    LET keys == << "symbol", "current", "percent", "chg", "turnover_rate" >>
        present == SelectSeq(keys, LAMBDA key : key \in DOMAIN item.items)
    IN  List([i \in 1..Len(present) |-> item.items[present[i]]])

(* one row of simplify_quote_data *)
QuoteRow(item) ==
    LET row == <<
            DictGet(item, "symbol", Null),
            DictGet(item, "current", Null),
            DictGet(item, "percent", Null),
            DictGet(item, "chg", Null),
            IF Truthy(DictGet(item, "volume", Null))
            THEN FormatNumber(DictGet(item, "volume", Null), "wan") ELSE Null,
            FormatNumber(DictGet(item, "amount", Null), "yi"),
            FormatNumber(DictGet(item, "market_capital", Null), "yi"),
            DictGet(item, "turnover_rate", Null),
            IF Truthy(DictGet(item, "timestamp", Null))
            THEN SplitWord(DictGet(item, "timestamp", Str(<<>>)), 2) ELSE Null >>
    IN  Rows(row)

(* simplify_quote_data *)
SimplifyQuoteData(data) ==
    IF ~Truthy(data) THEN data
    ELSE IF data.type = "dict" /\ "data" \in DOMAIN data.items
    THEN LET items == DictGet(data, "data", EmptyList)
         IN  IF items.type = "list"
             THEN LET dicts == SelectSeq(items.elems, LAMBDA item : item.type = "dict")
                      rows == Rows([i \in 1..Len(dicts) |-> QuoteRow(dicts[i])])
                      columns == << "symbol", "current", "percent", "chg", "volume(wan)",
                                    "amount(yi)", "market_cap(yi)", "turnover%", "time" >>
                  IN  IF IsRaised(rows) THEN rows
                      ELSE Dict("columns" :> Names(columns) @@ "data" :> rows @@
                                "error_code" :> DictGet(data, "error_code", Zero))
             ELSE data
    ELSE data

(* the guard the three other profiles begin with:                          *)
(* if not data or 'data' not in data: return data                          *)
Guarded(data, body) ==
    IF ~Truthy(data) THEN data
    ELSE IF NotIterable(data) THEN Raised("TypeError")
    ELSE IF ~In("data", data) THEN data
    ELSE body

(* simplify_quote_detail_data *)
SimplifyQuoteDetailData(data) ==
    LET inner == DictGet(data, "data", EmptyDict)
        q == DictGet(inner, "quote", EmptyDict)
        columns == << "symbol", "name", "current", "percent", "chg", "open", "close", "high",
                      "low", "high52w", "low52w", "vol(wan)", "amt(yi)", "turnover%",
                      "pe", "pb", "ps", "pcf", "cap(yi)", "float_cap(yi)", "eps", "yield%" >>
        market_status ==
            IF "market" \in DOMAIN inner.items
            THEN DictGet(DictGet(inner, "market", EmptyDict), "status", Word("unknown"))
            ELSE Null
        quote_data == <<
            DictGet(q, "symbol", Null),
            DictGet(q, "name", Null),
            DictGet(q, "current", Null),
            DictGet(q, "percent", Null),
            DictGet(q, "chg", Null),
            DictGet(q, "open", Null),
            DictGet(q, "last_close", Null),
            DictGet(q, "high", Null),
            DictGet(q, "low", Null),
            DictGet(q, "high52w", Null),
            DictGet(q, "low52w", Null),
            FormatNumber(DictGet(q, "volume", Null), "wan"),
            FormatNumber(DictGet(q, "amount", Null), "yi"),
            DictGet(q, "turnover_rate", Null),
            DictGet(q, "pe_ttm", Null),
            DictGet(q, "pb", Null),
            DictGet(q, "ps", Null),
            DictGet(q, "pcf", Null),
            FormatNumber(DictGet(q, "market_capital", Null), "yi"),
            FormatNumber(DictGet(q, "float_market_capital", Null), "yi"),
            DictGet(q, "eps", Null),
            DictGet(q, "dividend_yield", Null) >>
    IN  Guarded(data,
            IF IsRaised(inner) THEN inner
            ELSE IF IsRaised(q) THEN q
            ELSE IF IsRaised(market_status) THEN market_status
            ELSE IF IsRaised(Rows(quote_data)) THEN Rows(quote_data)
            ELSE Dict("market_status" :> market_status @@
                      "columns" :> Names(columns) @@
                      "data" :> List(quote_data) @@
                      "error_code" :> DictGet(data, "error_code", Zero)))

out_cols ==
    << "date", "open", "high", "low", "close", "vol(wan)", "amt(yi)",
       "pe", "pb", "ps", "pcf", "cap(yi)" >>

src_cols ==
    << "timestamp", "open", "high", "low", "close", "volume", "amount",
       "pe", "pb", "ps", "pcf", "market_capital" >>

unit_map == [k \in 1..12 |-> IF k = 6 THEN "wan" ELSE IF k \in {7, 12} THEN "yi" ELSE "none"]

(* columns.index(src), counted from 1; None where src is not in columns.   *)
(* A header that is a list of names or a dict; None and numbers raise      *)
(* before, at 'src in columns'.                                            *)
ColIndices(columns) ==
    [k \in 1..12 |->
        IF ~In(src_cols[k], columns) THEN 0
        ELSE IF columns.type = "list"
        THEN CHOOSE i \in 1..Len(columns.elems) :
                 /\ columns.elems[i] = Word(src_cols[k])
                 /\ \A j \in 1..(i - 1) : columns.elems[j] # Word(src_cols[k])
        ELSE -1]

(* one entry of a row of simplify_kline_data; item is a list, None or a    *)
(* number                                                                  *)
KlineEntry(item, k, idx) ==
    IF idx = 0 THEN Null
    ELSE IF item.type # "list" THEN Raised("TypeError")
    ELSE IF idx > Len(item.elems) THEN Null
    ELSE LET val == item.elems[idx]
         IN  IF k = 1 /\ Truthy(val)
             THEN LET dt_str == TimestampToDatetime(val)
                  IN  IF IsRaised(dt_str) THEN dt_str ELSE SplitWord(dt_str, 1)
             ELSE IF unit_map[k] # "none" THEN FormatNumber(val, unit_map[k])
             ELSE IF val.type = "float" THEN Round2(val) ELSE val

(* simplify_kline_data; items is a list or None *)
SimplifyKlineData(data) ==
    LET inner == DictGet(data, "data", EmptyDict)
        columns == DictGet(inner, "column", EmptyList)
        items == DictGet(inner, "item", EmptyList)
        col_indices == ColIndices(columns)
        simplified_data ==
            Rows([i \in 1..Len(items.elems) |->
                     Rows([k \in 1..12 |-> KlineEntry(items.elems[i], k, col_indices[k])])])
    IN  Guarded(data,
            IF IsRaised(inner) THEN inner
            ELSE IF IsRaised(columns) THEN columns
            ELSE IF NotIterable(columns) THEN Raised("TypeError")
            ELSE IF \E k \in 1..12 : col_indices[k] = -1 THEN Raised("AttributeError")
            ELSE IF NotIterable(items) THEN Raised("TypeError")
            ELSE IF IsRaised(simplified_data) THEN simplified_data
            ELSE Dict("symbol" :> DictGet(inner, "symbol", Null) @@
                      "columns" :> Names(out_cols) @@
                      "data" :> simplified_data @@
                      "error_code" :> DictGet(data, "error_code", Zero)))

(* one row of simplify_capital_flow_data *)
CapitalFlowRow(item) ==
    LET ts == DictGet(item, "timestamp", Null)
        dt == TimestampToDatetime(ts)
        time_str == IF ~Truthy(ts) THEN Null
                    ELSE IF IsRaised(dt) THEN dt ELSE SplitWord(dt, 2)
        main_in == Plus(DictGet(item, "amount0", Zero), DictGet(item, "amount1", Zero), 1)
        main_out == Plus(DictGet(item, "amount4", Zero), DictGet(item, "amount5", Zero), 1)
        net == Plus(main_in, main_out, -1)
    IN  IF IsRaised(ts) THEN ts
        ELSE IF IsRaised(time_str) THEN time_str
        ELSE IF IsRaised(net) THEN net
        ELSE List(<< time_str, FormatNumber(main_in, "wan"), FormatNumber(main_out, "wan"),
                     FormatNumber(net, "wan") >>)

(* simplify_capital_flow_data; items is a list or None *)
SimplifyCapitalFlowData(data) ==
    LET inner == DictGet(data, "data", EmptyDict)
        items == DictGet(inner, "items", EmptyList)
        columns == << "time", "main_in(wan)", "main_out(wan)", "net(wan)" >>
        \* the items enumerate() numbers 0, 10, 20, ...
        kept == [n \in 1..((Len(items.elems) + 9) \div 10) |-> items.elems[10 * (n - 1) + 1]]
        rows == Rows([n \in 1..Len(kept) |-> CapitalFlowRow(kept[n])])
    IN  Guarded(data,
            IF IsRaised(inner) THEN inner
            ELSE IF IsRaised(items) THEN items
            ELSE IF NotIterable(items) THEN Raised("TypeError")
            ELSE IF IsRaised(rows) THEN rows
            ELSE Dict("columns" :> Names(columns) @@ "data" :> rows @@
                      "error_code" :> DictGet(data, "error_code", Zero)))

(* the profiles explored, of the 25 that process_data knows *)
Simplify(simplify_type, data) ==
    IF simplify_type = Word("quote") THEN SimplifyQuoteData(data)
    ELSE IF simplify_type = Word("quote_detail") THEN SimplifyQuoteDetailData(data)
    ELSE IF simplify_type = Word("kline") THEN SimplifyKlineData(data)
    ELSE IF simplify_type = Word("capital_flow") THEN SimplifyCapitalFlowData(data)
    ELSE data

(* process_data compacting first and converting second *)
ProcessDataCompactFirst(data, process_config) ==
    LET config == IF process_config = Null
                  THEN Dict("convert_timestamps" :> Bool(TRUE))
                  ELSE process_config
        compact == Simplify(DictGet(config, "simplify", Null), data)
    IN  IF IsRaised(compact) THEN compact
        ELSE IF Truthy(DictGet(config, "convert_timestamps", Bool(TRUE)))
        THEN ConvertTimestamps(compact)
        ELSE compact

(* process_data: the default of process_config is None *)
ProcessData(data, process_config) ==
    LET config == IF process_config = Null
                  THEN Dict("convert_timestamps" :> Bool(TRUE))
                  ELSE process_config
        canonical == IF Truthy(DictGet(config, "convert_timestamps", Bool(TRUE)))
                     THEN ConvertTimestamps(data)
                     ELSE data
        simplify_type == DictGet(config, "simplify", Null)
    IN  IF IsRaised(canonical) THEN canonical
        ELSE Simplify(simplify_type, canonical)

---------------------------------------------------------------------------
(* The data functions, applied to documents of bounded size *)

MaxItems == 2

(* sequences of at most n elements of S *)
UpTo(S, n) == UNION { [1..k -> S] : k \in 0..n }

(* values given to format_number: numbers on both sides of 10^4 and 10^8,  *)
(* fractions, and values that are no number                                *)
Values ==
    { Zero, PyInt(5, 2), PyInt(9999, 0), PyInt(1, 4), PyInt(15, 3), PyInt(12345, 0),
      PyInt(99999999, 0), PyInt(1, 8), PyInt(25, 7), PyInt(123456789, 0),
      PyInt(-9999, 0), PyInt(-15, 3), PyInt(-1, 8), PyInt(-25, 7),
      PyFloat(125, -3), PyFloat(375, -3), PyFloat(12344, -3), PyFloat(12346, -3),
      PyFloat(99999999, -4), PyFloat(100000005, -1), PyFloat(-12346, -3),
      Null, Word("N/A"), EmptyList, EmptyDict }

(* values found under a time key: millisecond and second epochs, the two   *)
(* thresholds and their neighbours, times beyond the year 9999, and        *)
(* values that are no epoch                                                *)
Stamps ==
    { PyInt(17, 11), PyInt(17, 8), PyFloat(17, 8), PyInt(5, 0), Zero,
      PyInt(1, 9), PyInt(100000001, 1), PyInt(1, 12), PyInt(100000001, 4),
      PyInt(1, 15), Null, Word("2024-01-01"), Str(<< "2024-01-01", "09:30:00" >>) }

(* a dict with one key, a time key or another, alone and inside dicts and  *)
(* lists                                                                   *)
Nested ==
    LET Nestings(d) ==
            { d,
              Dict("data" :> d),
              List(<< d >>),
              Dict("data" :> List(<< d, d >>) @@ "error_code" :> Zero),
              List(<< List(<< Dict("items" :> List(<< d >>)) >>), PyInt(17, 11) >>),
              Dict("timestamp" :> d) }
    IN  UNION { Nestings(Dict(key :> v)) :
                  key \in {"timestamp", "report_date", "date", "volume"}, v \in Stamps }

QuoteDocs ==
    LET QuoteItems == {
      Dict("symbol" :> Word("SH600000") @@ "current" :> PyFloat(1052, -2) @@
           "percent" :> PyFloat(-125, -2) @@ "chg" :> PyFloat(-13, -2) @@
           "volume" :> PyInt(125, 4) @@ "amount" :> PyInt(25, 7) @@
           "market_capital" :> PyInt(31, 10) @@ "turnover_rate" :> PyFloat(4, -1) @@
           "timestamp" :> PyInt(17, 11)),
      Dict("symbol" :> Word("SZ000001") @@ "volume" :> Zero),
      Dict("symbol" :> Word("SH000001") @@ "timestamp" :> PyInt(5, 0)),
      Dict("symbol" :> Word("HK00700") @@ "timestamp" :> Word("2024-01-01")),
      Dict("symbol" :> Word("BABA") @@ "timestamp" :> Str(<< "2024-01-01", "09:30:00" >>)),
      Null,
      PyInt(7, 0) }
    IN  { Dict("data" :> List(items)) : items \in UpTo(QuoteItems, MaxItems) }

QuoteDetailDocs ==
    LET Quote ==
            Dict("symbol" :> Word("SH600000") @@ "name" :> Word("PFYH") @@
                 "current" :> PyFloat(1052, -2) @@ "volume" :> PyInt(125, 4) @@
                 "amount" :> PyInt(25, 7) @@ "market_capital" :> PyInt(31, 10) @@
                 "timestamp" :> PyInt(17, 11))
    IN
    { Dict("data" :> inner @@ "error_code" :> Zero) :
        inner \in { Dict("quote" :> Quote @@ "market" :> Dict("status" :> Word("open"))),
                    Dict("quote" :> Quote @@ "market" :> EmptyDict),
                    Dict("quote" :> Quote),
                    Dict("quote" :> Quote @@ "market" :> Null),
                    Dict("quote" :> Null),
                    Dict("quote" :> Dict("symbol" :> Word("SZ000001"))),
                    EmptyDict,
                    Null } }

KlineDocs ==
    LET Header == << "timestamp", "volume", "open", "close", "amount" >>
        KlineItems == {
      List(<< PyInt(17, 11), PyInt(125, 4), PyFloat(10523, -3), PyFloat(1061, -2), PyInt(25, 7) >>),
      List(<< PyInt(17, 8), PyInt(3, 4), PyInt(10, 0) >>),
      List(<< Null, Null, Null, Null, Null >>),
      List(<< PyInt(5, 0), PyInt(125, 4), PyFloat(10523, -3), PyFloat(1061, -2), PyInt(25, 7) >>),
      EmptyList,
      PyInt(7, 0) }
    IN
    { Dict("data" :> Dict("symbol" :> Word("SH600000") @@ "column" :> Names(Header) @@
                          "item" :> List(items))) : items \in UpTo(KlineItems, MaxItems) }
    \cup
    { Dict("data" :> Dict("item" :> List(<< item >>))) : item \in KlineItems }
    \cup
    { Dict("data" :> Dict("column" :> header @@ "item" :> List(<< item >>))) :
        header \in { Null, Dict("timestamp" :> Zero), Names(<< "close", "open", "open" >>) },
        item \in KlineItems }
    \cup
    { Dict("data" :> Dict("column" :> Names(Header) @@ "item" :> Null)) }

FlowDocs ==
    LET FlowItems == {
      Dict("timestamp" :> PyInt(17, 11) @@ "amount0" :> PyInt(12, 4) @@ "amount1" :> PyInt(35, 3) @@
           "amount4" :> PyInt(2, 4) @@ "amount5" :> PyFloat(155005, -1)),
      Dict("amount0" :> PyInt(12, 4)),
      Dict("timestamp" :> PyInt(17, 11) @@ "amount0" :> Null),
      Dict("timestamp" :> PyInt(5, 0)),
      Null }
    IN
    { Dict("data" :> Dict("items" :> List(items))) : items \in UpTo(FlowItems, MaxItems) }
    \cup
    { Dict("data" :> Dict("items" :> List([i \in 1..11 |-> IF i = 11 THEN last ELSE first]))) :
        first \in FlowItems, last \in FlowItems }
    \cup
    { Dict("data" :> Dict("items" :> Null)) }

OtherDocs ==
    { Null, EmptyDict, EmptyList, Zero, PyInt(5, 0), Word("error"), Word("data"),
      Dict("error_code" :> PyInt(4001, 2) @@ "error_description" :> Word("denied")),
      Dict("data" :> Null), Dict("data" :> Word("none")), Dict("data" :> PyInt(5, 0)),
      List(<< Word("data") >>) }

Documents == Nested \cup QuoteDocs \cup QuoteDetailDocs \cup KlineDocs \cup FlowDocs \cup OtherDocs

Profiles == {"quote", "quote_detail", "kline", "capital_flow"}

(* what the callers pass: nothing, or the profile to apply; and the two    *)
(* other configurations process_data provides for                          *)
Configs ==
    { Null }
    \cup { Dict("simplify" :> Word(name)) : name \in Profiles \cup {"no_such_profile"} }
    \cup { Dict("convert_timestamps" :> Bool(FALSE)),
           Dict("convert_timestamps" :> Bool(FALSE) @@ "simplify" :> Word("quote")),
           Dict("convert_timestamps" :> Bool(TRUE) @@ "simplify" :> Word("kline")) }

Applications ==
    { [fn |-> "format_number", val |-> val, unit |-> unit] :
        val \in Values, unit \in {"auto", "yi", "wan", "raw", "other"} }
    \cup { [fn |-> "convert_timestamps", data |-> data] : data \in Documents }
    \cup { [fn |-> "process_data", data |-> data, process_config |-> process_config] :
             data \in Documents, process_config \in Configs }

(* the token pool and the limiter as constructed with no token configured *)
InitData ==
    /\ env = [primary |-> <<>>, indexed |-> NoIndexed]
    /\ tokens = <<>>
    /\ current_index = 0
    /\ token_status = InitialStatus(<<>>)
    /\ active_token = None
    /\ current_interval = min_interval
    /\ last_request_time = 0
    /\ limiter_lock = 0
    /\ pool_lock = 0
    /\ now = StartTime
    /\ pc = [p \in Procs |-> "idle"]
    /\ call = [p \in Procs |-> IdleCall]
    /\ api = NoApi
    /\ hist = <<>>
    /\ g_fail = <<>>
    /\ g_since = <<>>
    /\ calls = 0
    /\ order = NoOrder
    /\ args \in Applications
    /\ processed = Pending

(* format_number(val, unit) *)
ApiFormatNumber ==
    /\ args.fn = "format_number"
    /\ processed = Pending
    /\ processed' = FormatNumber(args.val, args.unit)
    /\ UNCHANGED << args, poolVars, active_token, limiterVars, now, pc, call, api, ghostVars >>

(* convert_timestamps(data) *)
ApiConvertTimestamps ==
    /\ args.fn = "convert_timestamps"
    /\ processed = Pending
    /\ processed' = ConvertTimestamps(args.data)
    /\ UNCHANGED << args, poolVars, active_token, limiterVars, now, pc, call, api, ghostVars >>

(* process_data(data, process_config) *)
ApiProcessData ==
    /\ args.fn = "process_data"
    /\ processed = Pending
    /\ processed' = ProcessData(args.data, args.process_config)
    /\ UNCHANGED << args, poolVars, active_token, limiterVars, now, pc, call, api, ghostVars >>

NextData ==
    \/ ApiFormatNumber
    \/ ApiConvertTimestamps
    \/ ApiProcessData

SpecData == InitData /\ [][NextData]_vars

---------------------------------------------------------------------------
(* Claims about rate_limited_call *)

IsUpstream(e) == e.op \in {"upstream_ok", "upstream_err"}
IsReport(e)   == e.op \in {"report_failure", "report_success"}
IsBackoff(e)  == e.op = "backoff"

Executions(p) == SelectSeq(call[p].log, IsUpstream)
Reports(p)    == SelectSeq(call[p].log, IsReport)
Backoffs(p)   == SelectSeq(call[p].log, IsBackoff)

Finished(p) == pc[p] = "done"

(* C7: a logical call executes the upstream function at most twice; the    *)
(* second execution happens exactly when the first one raised, and        *)
(* nothing is executed after the second, whatever its outcome.            *)
C7_AtMostTwoAttempts ==
    \A p \in Procs :
        LET runs == Executions(p)
        IN  /\ Len(runs) <= 2
            /\ Len(runs) = 2 => runs[1].op = "upstream_err"
            /\ Finished(p) =>
                   /\ Len(runs) >= 1
                   /\ runs[1].op = "upstream_err" => Len(runs) = 2

(* a call that ended after its second execution failed *)
C7_Witness ==
    \E p \in Procs :
        /\ Finished(p)
        /\ Len(Executions(p)) = 2
        /\ Executions(p)[2].op = "upstream_err"

FailedThenSucceeded(p) ==
    /\ Finished(p)
    /\ Len(Executions(p)) = 2
    /\ Executions(p)[1].op = "upstream_err"
    /\ Executions(p)[2].op = "upstream_ok"

BothFailed(p) ==
    /\ Len(Executions(p)) = 2
    /\ Executions(p)[1].op = "upstream_err"
    /\ Executions(p)[2].op = "upstream_err"

C9_ErrorIffBothFail ==
    \A p \in Procs :
        Finished(p) =>
            /\ call[p].outcome = "raised" <=> BothFailed(p)
            /\ call[p].outcome = "returned" <=> ~BothFailed(p)
            /\ BothFailed(p) =>
                   call[p].raised \in {Executions(p)[2].val, AuthExpired}

(* C9 without the identity of the error: an error reaches the caller       *)
(* exactly when both attempts fail.                                        *)
C9_SomeErrorIffBothFail ==
    \A p \in Procs :
        Finished(p) =>
            /\ call[p].outcome = "raised" <=> BothFailed(p)
            /\ call[p].outcome = "returned" <=> ~BothFailed(p)
            /\ BothFailed(p) => call[p].raised # "none"

(* C10: when the second attempt's failure carries bytes that decode to a   *)
(* JSON object whose error_code is "400016" or whose error_description is  *)
(* a string containing the re-login phrase, the caller gets the            *)
(* auth-expired error and not the original one.                            *)
CarriesAuthExpiry(err) ==
    LET payload == Errors[err]
    IN  /\ payload.type = "bytes"
        /\ payload.utf8
        /\ payload.text.shape = "object"
        /\ \/ payload.text.error_code = Str(<<"400016">>)
           \/ /\ payload.text.error_description.type = "string"
              /\ ReLogin \in Range(payload.text.error_description.words)

C10_AuthExpiredSurfaced ==
    \A p \in Procs :
        (Finished(p) /\ BothFailed(p) /\ CarriesAuthExpiry(Executions(p)[2].val)) =>
            /\ call[p].outcome = "raised"
            /\ call[p].raised = AuthExpired
            /\ call[p].raised # Executions(p)[2].val

(* the phrase alone, without the error code, is classified *)
C10_Witness ==
    \E p \in Procs :
        /\ Finished(p) /\ BothFailed(p)
        /\ Executions(p)[2].val = "relogin"
        /\ call[p].raised = AuthExpired

---------------------------------------------------------------------------
(* Claims about the limiter *)

(* C5: in every reachable state min_interval <= current_interval <=        *)
(* max_interval, whatever the interleaving of wait() and backoff().        *)
C5_IntervalInRange ==
    min_interval <= current_interval /\ current_interval <= max_interval

(* a backoff that found the interval just below max_interval and clamped it *)
C5_Witness ==
    /\ api.op = "backoff"
    /\ api.prev < max_interval /\ Scaled(api.prev) > max_interval
    /\ current_interval = max_interval

(* C6: a wait() that finds more than recovery_timeout elapsed since        *)
(* last_request_time works with min_interval (it does not sleep) and       *)
(* leaves min_interval in current_interval, whatever the interval was.     *)
C6_IdleRecovery ==
    /\ (api.op = "wait_begin" /\ api.gap > recovery_timeout) =>
           /\ current_interval = min_interval
           /\ call[limiter_lock].wake = now
    /\ (api.op = "wait_end" /\ api.gap > recovery_timeout) =>
           current_interval = min_interval

(* a wait() that found the interval saturated and reset it *)
C6_Witness ==
    /\ api.op = "wait_end"
    /\ api.gap > recovery_timeout
    /\ api.prev = max_interval
    /\ current_interval = min_interval

---------------------------------------------------------------------------
(* Claims about the pool *)

Distinct == Cardinality(Range(tokens)) = Len(tokens)

(* C1: in a pool of exactly one credential, disabled_until keeps its       *)
(* initial value whatever is reported, and every get_next_token returns    *)
(* that credential.                                                        *)
C1_SingleNeverDisabled ==
    Len(tokens) = 1 =>
        /\ token_status[tokens[1]].disabled_until = 0
        /\ api.op = "next" => api.tok = tokens[1]

C1_Witness ==
    /\ Len(tokens) = 1
    /\ g_fail[tokens[1]] >= max_failures
    /\ api.op = "next"
    /\ now > StartTime

(* A token is cooling down, by the reports made against it: its latest     *)
(* max_failures-th or later consecutive failure is less than               *)
(* cooldown_seconds ago.                                                   *)
Cooling(t) == g_since[t] >= 0 /\ now < g_since[t] + cooldown_seconds

(* C2 as stated: in a pool of two or more credentials, get_next_token      *)
(* never returns a credential that is cooling down.                        *)
C2_NeverReturnedWhileCooling ==
    (api.op = "next" /\ Len(tokens) >= 2 /\ Distinct) => ~Cooling(api.tok)

(* C2, amended: in a pool of two or more credentials, get_next_token       *)
(* returns a cooling credential only when every credential of the pool is  *)
(* cooling down, and then it is the first credential in pool order.        *)
C2_ExcludedUnlessAllCooling ==
    (api.op = "next" /\ Len(tokens) >= 2 /\ Cooling(api.tok)) =>
        /\ \A u \in Range(tokens) : Cooling(u)
        /\ api.tok = tokens[1]

(* a disabled credential is returned again once its cooldown has elapsed,  *)
(* while another credential is still cooling down                          *)
C2_Witness ==
    /\ api.op = "next" /\ Len(tokens) >= 2 /\ Distinct
    /\ g_since[api.tok] >= 0
    /\ now >= g_since[api.tok] + cooldown_seconds
    /\ \E u \in Range(tokens) : Cooling(u)

(* C3: for a non-empty pool get_next_token always returns a credential of  *)
(* the pool, it can always be called, and when every credential is         *)
(* cooling down it returns the first one in pool order.                    *)
C3_AlwaysACredential ==
    tokens # <<>> =>
        /\ ENABLED ApiNext
        /\ api.op = "next" =>
            /\ api.tok \in Range(tokens)
            /\ (\A t \in Range(tokens) : now < token_status[t].disabled_until)
                   => api.tok = tokens[1]

C3_Witness ==
    /\ api.op = "next" /\ Len(tokens) >= 3 /\ Distinct
    /\ \A t \in Range(tokens) : now < token_status[t].disabled_until
    /\ current_index # 0
    /\ api.tok = tokens[1]

(* C4: with N >= 2 credentials and none cooling down, any N consecutive    *)
(* get_next_token calls return each credential exactly once, and the call  *)
(* that follows returns the same credential as the one N calls before.     *)
Occurrences(t, from, to) == Cardinality({ j \in from..to : hist[j] = t })

C4_RoundRobin ==
    LET N == Len(tokens)
    IN  N >= 2 =>
            /\ \A i \in 1..Len(hist) :
                   i + N - 1 <= Len(hist) =>
                       \A t \in Range(tokens) : Occurrences(t, i, i + N - 1) = 1
            /\ \A i \in 1..Len(hist) :
                   i + N <= Len(hist) => hist[i + N] = hist[i]

(* C4 where load has produced no duplicate entry *)
C4_RoundRobinDistinct == Distinct => C4_RoundRobin

C4_Witness == Distinct /\ Len(tokens) >= 3 /\ Len(hist) = Len(tokens) + 1

---------------------------------------------------------------------------
(* Claims about the classification of the second failure *)

(* the payload of err is not bytes, is not UTF-8, is not JSON, or is JSON  *)
(* of another shape than an object with a string error_code and a string   *)
(* error_description                                                       *)
Malformed(err) ==
    LET payload == Errors[err]
    IN  \/ payload.type # "bytes"
        \/ ~payload.utf8
        \/ payload.text.shape # "object"
        \/ payload.text.error_code.type # "string"
        \/ payload.text.error_description.type # "string"

(* C11: when the second attempt's failure has a payload that is not valid  *)
(* UTF-8, not valid JSON or not of the expected object shape, the caller   *)
(* gets that failure itself, and no other error in its place.              *)
C11_OriginalReraised ==
    \A p \in Procs :
        (Finished(p) /\ BothFailed(p) /\ Malformed(Executions(p)[2].val)
            /\ ~CarriesAuthExpiry(Executions(p)[2].val)) =>
            /\ call[p].outcome = "raised"
            /\ call[p].raised = Executions(p)[2].val

---------------------------------------------------------------------------
(* Claims about the effects of a logical call *)

IsSet(e)  == e.op = "set_token"
IsNext(e) == e.op = "next"

Sets(p)  == SelectSeq(call[p].log, IsSet)
Nexts(p) == SelectSeq(call[p].log, IsNext)

(* the pool's membership is what load made of the environment *)
PoolMembershipKept ==
    /\ tokens = LoadTokens(env)
    /\ DOMAIN token_status = Range(tokens)

(* C17 as stated: a logical call changes limiter timing state, pool health *)
(* state and the active-token slot only, and with a credential available   *)
(* it writes the active-token slot once.                                   *)
C17_SlotSetOncePerCall ==
    /\ PoolMembershipKept
    /\ \A p \in Procs :
           (Finished(p) /\ tokens # <<>>) => Len(Sets(p)) = 1

(* C17 per attempt: a logical call changes limiter timing state, pool      *)
(* health state and the active-token slot only, and with a credential      *)
(* available it writes the active-token slot once before each execution   *)
(* of the upstream function, with the credential just acquired.            *)
C17_SlotSetOncePerAttempt ==
    /\ PoolMembershipKept
    /\ \A p \in Procs :
           /\ tokens # <<>> =>
                  /\ Len(Sets(p)) <= Len(Nexts(p))
                  /\ Len(Executions(p)) <= Len(Sets(p))
                  /\ Len(Sets(p)) <= Len(Executions(p)) + 1
                  /\ \A i \in 1..Len(Sets(p)) : Sets(p)[i].tok = Nexts(p)[i].tok
           /\ (Finished(p) /\ tokens # <<>>) =>
                  Len(Sets(p)) = Len(Executions(p))

(* a finished call that wrote the slot twice, with two credentials *)
C17_Witness ==
    \E p \in Procs :
        /\ Finished(p)
        /\ Len(Sets(p)) = 2
        /\ Sets(p)[1].tok # Sets(p)[2].tok

(* C18: with an empty pool every get_next_token returns None, and a call   *)
(* still executes the upstream function, and its retry after a failure,    *)
(* without writing the active-token slot and without any report, and the   *)
(* pool's state stays what it was.                                         *)
C18_EmptyPool ==
    tokens = <<>> =>
        /\ current_index = 0
        /\ token_status = InitialStatus(<<>>)
        /\ active_token = None
        /\ \A p \in Procs :
               /\ \A i \in 1..Len(Nexts(p)) : Nexts(p)[i].tok = None
               /\ Sets(p) = <<>>
               /\ Reports(p) = <<>>
               /\ Finished(p) =>
                      /\ Len(Executions(p)) >= 1
                      /\ Len(Nexts(p)) = Len(Executions(p))
                      /\ Executions(p)[1].op = "upstream_err" => Len(Executions(p)) = 2

(* a call that failed twice with an empty pool *)
C18_Witness ==
    /\ tokens = <<>>
    /\ \E p \in Procs : Finished(p) /\ BothFailed(p)

---------------------------------------------------------------------------
(* Claims about _load_tokens *)

Loaded == api.op = "load"

(* C19: after load, whatever XUEQIU_TOKEN and the XUEQIU_TOKEN_i hold, the *)
(* token list has no duplicate entry and there are as many status records  *)
(* as entries in the list.                                                 *)
C19_NoDuplicates ==
    Loaded =>
        /\ \A i, j \in 1..Len(tokens) : tokens[i] = tokens[j] => i = j
        /\ Cardinality(DOMAIN token_status) = Len(tokens)

(* the first i with XUEQIU_TOKEN_i unset; NumIndexed + 1 when all are set *)
FirstGap ==
    LET unset == { i \in 1..NumIndexed : env.indexed[i] = None }
    IN  IF unset = {} THEN NumIndexed + 1
        ELSE CHOOSE i \in unset : \A j \in unset : i <= j

Primary == PrimaryTokens(env.primary)

(* XUEQIU_TOKEN_i holds a token that no source before the first gap holds *)
OnlyAfterGap(i) ==
    /\ i > FirstGap
    /\ env.indexed[i] # None
    /\ env.indexed[i] \notin Range(Primary)
    /\ \A j \in 1..(FirstGap - 1) : env.indexed[j] # env.indexed[i]

(* C20 as stated: the indexed variables are collected in the order 1, 2,   *)
(* ... up to the first unset one; a token found only after that gap is not *)
(* in the pool.                                                            *)
C20_StopsAtFirstGap ==
    Loaded =>
        \A i \in 1..NumIndexed : OnlyAfterGap(i) => env.indexed[i] \notin Range(tokens)

(* the first i with XUEQIU_TOKEN_i = t *)
FirstIndexOf(t) ==
    CHOOSE i \in 1..NumIndexed :
        /\ env.indexed[i] = t
        /\ \A j \in 1..(i - 1) : env.indexed[j] # t

(* C20 without the stop: the token list is the primary tokens followed by  *)
(* the tokens of all the variables XUEQIU_TOKEN_1 .. XUEQIU_TOKEN_9 that   *)
(* are set and not yet in the list, in the order of their index; an unset  *)
(* variable does not end the scan.                                         *)
C20_ScansEveryIndex ==
    Loaded =>
        LET n == Len(Primary)
            added == { k \in 1..Len(tokens) : k > n }
        IN  /\ Len(tokens) >= n
            /\ SubSeq(tokens, 1, n) = Primary
            /\ \A i \in 1..NumIndexed :
                   env.indexed[i] # None => env.indexed[i] \in Range(tokens)
            /\ \A k \in added :
                   /\ tokens[k] \in { env.indexed[i] : i \in 1..NumIndexed } \ {None}
                   /\ \A j \in 1..(k - 1) : tokens[j] # tokens[k]
            /\ \A j, k \in added :
                   j < k => FirstIndexOf(tokens[j]) < FirstIndexOf(tokens[k])

(* a token that only a variable after the first gap holds is in the pool,  *)
(* behind a token of a variable before the gap                             *)
C20_Witness ==
    /\ Loaded
    /\ FirstGap > 1
    /\ \E i \in 1..NumIndexed :
           /\ OnlyAfterGap(i)
           /\ tokens[Len(tokens)] = env.indexed[i]
           /\ env.indexed[1] \in Range(tokens) \ Range(Primary)

---------------------------------------------------------------------------
(* Claims about concurrent callers of the limiter *)

InWait(p) == pc[p] \in {"in_wait", "waiting"}

(* C13: at most one caller at a time is between wait()'s reading of the    *)
(* clock and its stamping of last_request_time: a caller in that section   *)
(* holds the lock, no other caller is in it or sleeps in it, and           *)
(* last_request_time is still the value this caller computed its sleep     *)
(* from, so that no other caller has computed a sleep from that value.     *)
C13_OneCallerInWait ==
    \A p \in Procs :
        InWait(p) =>
            /\ limiter_lock = p
            /\ \A q \in Procs \ {p} : ~InWait(q)
            /\ last_request_time = call[p].seen

(* caller 2 sleeps inside wait() after an earlier wait() completed, and    *)
(* caller 1 cannot enter                                                   *)
C13_Witness ==
    /\ pc[2] = "in_wait"
    /\ now < call[2].wake
    /\ call[2].seen >= StartTime
    /\ pc[1] = "idle"
    /\ ~ENABLED ApiWaitBegin(1)

(* C14: a wait() that completes stamps last_request_time with a time that  *)
(* is at least the previous stamp plus the current_interval in force       *)
(* during this wait().                                                     *)
C14_CompletionsSpaced ==
    api.op = "wait_end" => last_request_time >= api.last + current_interval

(* a wait() that had to sleep completes after an earlier wait(), with a    *)
(* backed-off interval                                                     *)
C14_Witness ==
    /\ api.op = "wait_end"
    /\ api.last >= StartTime
    /\ api.gap < current_interval
    /\ current_interval > min_interval

---------------------------------------------------------------------------
(* Claims about concurrent calls of rate_limited_call *)

(* C12: whenever a call executes the upstream function after it acquired   *)
(* a credential, the active-token slot holds that credential at the        *)
(* execution, however the calls interleave; the report that follows is     *)
(* then made against the credential the execution ran with.                *)
C12_SlotHoldsAcquired ==
    \A p \in Procs :
        /\ \A i \in 1..Len(Executions(p)) :
               Nexts(p)[i].tok # None => Executions(p)[i].tok = Nexts(p)[i].tok
        /\ \A i \in 1..Len(Reports(p)) : Reports(p)[i].tok = Executions(p)[i].tok

(* C15 as stated: callers enter wait()'s pacing section in the order in    *)
(* which they called wait(), so a caller that called wait() earlier        *)
(* completes it earlier.                                                   *)
C15_FifoAdmission ==
    /\ \A p, q \in Procs :
           (pc[p] \in {"wait_in", "waiting"} /\ pc[q] = "wait") =>
               call[p].ticket < call[q].ticket
    /\ \A i, j \in 1..Len(order.completed) :
           i < j => order.completed[i] < order.completed[j]

IsPrefix(s, t) == Len(s) <= Len(t) /\ s = SubSeq(t, 1, Len(s))

(* C15 by lock order: callers complete wait() in the order in which they   *)
(* took the limiter's lock, one at a time; that order need not be the      *)
(* order in which they called wait().                                      *)
C15_CompletionInLockOrder ==
    /\ IsPrefix(order.completed, order.admitted)
    /\ Len(order.admitted) <= Len(order.completed) + 1
    /\ \A p \in Procs :
           pc[p] \in {"wait_in", "waiting"} =>
               /\ order.admitted[Len(order.admitted)] = call[p].ticket
               /\ Len(order.admitted) = Len(order.completed) + 1

(* the caller that called wait() second completed it first, and the other  *)
(* caller is inside wait() after it                                        *)
C15_Witness ==
    /\ order.completed = << 2 >>
    /\ order.admitted = << 2, 1 >>
    /\ \E p \in Procs : pc[p] = "waiting" /\ call[p].ticket = 1 /\ now < call[p].wake

(* the caller whose step this is *)
Moves(p) == pc'[p] # pc[p]

HoldsNoLock(p) == limiter_lock # p /\ pool_lock # p

Unlocked ==
    \A p \in Procs :
        pc[p] \in {"call1", "call2", "sleeping"} => HoldsNoLock(p)

(* C16: a step that changes current_interval or last_request_time is taken *)
(* by the holder of the limiter's lock and a step that changes a failure   *)
(* count, a disabled_until or the cursor by the holder of the pool's lock, *)
(* and a caller that executes the upstream function or sleeps before its   *)
(* retry holds neither lock.                                               *)
C16_MutationsUnderLock ==
    [][ /\ \A p \in Procs :
               Moves(p) =>
                   /\ << current_interval, last_request_time >>' #
                          << current_interval, last_request_time >>
                          => limiter_lock = p
                   /\ << current_index, token_status >>' #
                          << current_index, token_status >>
                          => pool_lock = p
        /\ Unlocked
        /\ Unlocked' ]_vars

(* caller 1 sleeps before its retry, after its failure was counted, while  *)
(* caller 2 sleeps inside wait() with the limiter's lock                   *)
C16_Witness ==
    /\ pc[1] = "sleeping"
    /\ call[1].cur # None
    /\ token_status[call[1].cur].failures = 1
    /\ pc[2] = "waiting"
    /\ limiter_lock = 2
    /\ now < call[2].wake

---------------------------------------------------------------------------
(* Claims about the single operations of the pool *)

OthersKept(token) ==
    \A other \in DOMAIN token_status \ {token} :
        token_status'[other] = token_status[other]

(* C21: in a pool of two or more tokens report_failure on a token of the   *)
(* pool adds one to its failure count, sets its disabled_until to now +    *)
(* cooldown_seconds when the new count has reached max_failures and        *)
(* leaves it otherwise, does not reset the count, and changes neither the  *)
(* cursor nor any other token's status.                                    *)
C21_ReportFailureEffect ==
    [][ \A token \in Range(tokens) :
            (Len(tokens) >= 2 /\ ApiReportFailure(token)) =>
                LET failures == token_status[token].failures + 1
                IN  /\ token_status'[token].failures = failures
                    /\ token_status'[token].disabled_until =
                           IF failures >= max_failures
                           THEN now + cooldown_seconds
                           ELSE token_status[token].disabled_until
                    /\ OthersKept(token)
                    /\ DOMAIN token_status' = DOMAIN token_status
                    /\ current_index' = current_index
                    /\ tokens' = tokens ]_vars

(* a token was disabled just now with its count left at max_failures,      *)
(* while the cursor is past the start and another token has its own count  *)
C21_Witness ==
    /\ Len(tokens) >= 3
    /\ current_index # 0
    /\ \E t, u \in Range(tokens) :
           /\ t # u
           /\ token_status[t].failures = max_failures
           /\ token_status[t].disabled_until = now + cooldown_seconds
           /\ g_fail[t] = max_failures
           /\ token_status[u].failures = 1

(* C22: report_success on a token of the pool sets that token's failure    *)
(* count to 0 and changes nothing else: not its disabled_until, not the    *)
(* cursor, not another token's status; with None or an unknown token it    *)
(* changes nothing.                                                        *)
C22_ReportSuccessEffect ==
    [][ \A token \in Arguments :
            ApiReportSuccess(token) =>
                /\ current_index' = current_index
                /\ tokens' = tokens
                /\ DOMAIN token_status' = DOMAIN token_status
                /\ IF token \in Range(tokens)
                   THEN /\ token_status'[token].failures = 0
                        /\ token_status'[token].disabled_until =
                               token_status[token].disabled_until
                        /\ OthersKept(token)
                   ELSE token_status' = token_status ]_vars

(* a token whose success was reported is still cooling down *)
C22_Witness ==
    \E t \in Range(tokens) :
        /\ token_status[t].failures = 0
        /\ g_fail[t] = 0
        /\ g_since[t] >= 0
        /\ now < token_status[t].disabled_until

(* the position, counted from the cursor, of the first eligible token;     *)
(* Len(tokens) when every token is cooling down                            *)
FirstEligibleOffset ==
    LET N == Len(tokens)
        hits == { k \in 0..(N - 1) : Eligible(tokens[((current_index + k) % N) + 1]) }
    IN  IF hits = {} THEN N ELSE CHOOSE k \in hits : \A j \in hits : k <= j

(* C30: in a pool of N >= 2 tokens the cursor is always in 0..N-1;         *)
(* get_next_token returns the first token at or after the cursor,          *)
(* cyclically, whose disabled_until <= now and leaves the cursor one       *)
(* position past it, and when all N are cooling down the cursor is where   *)
(* it was before the call.                                                 *)
C30_CursorAndScan ==
    [][ Len(tokens) >= 2 =>
            LET N == Len(tokens)
                k == FirstEligibleOffset
            IN  /\ current_index \in 0..(N - 1)
                /\ current_index' \in 0..(N - 1)
                /\ ApiNext =>
                       IF k < N
                       THEN /\ api'.tok = tokens[((current_index + k) % N) + 1]
                            /\ current_index' = (current_index + k + 1) % N
                       ELSE current_index' = current_index ]_vars

(* get_next_token skipped two cooling tokens and wrapped around *)
C30_Witness ==
    /\ api.op = "next"
    /\ Len(tokens) = 3 /\ Distinct
    /\ api.tok = tokens[2]
    /\ current_index = 2
    /\ now < token_status[tokens[3]].disabled_until
    /\ now < token_status[tokens[1]].disabled_until

---------------------------------------------------------------------------
(* Claims about the steps of the limiter *)

(* C23: a step that changes current_interval is a backoff(), which sets it *)
(* to min(1.2 x the old value, max_interval), above the old value, or a    *)
(* wait() that found more than recovery_timeout elapsed since              *)
(* last_request_time, which sets it to min_interval; every backoff() sets  *)
(* it so, and no other step changes it.                                    *)
C23_IntervalChanges ==
    [][ /\ current_interval' # current_interval =>
               \/ /\ api'.op = "backoff"
                  /\ current_interval' > current_interval
               \/ /\ api'.op = "wait_begin"
                  /\ now - last_request_time > recovery_timeout
                  /\ current_interval' = min_interval
        /\ api'.op = "backoff" =>
               current_interval' =
                   Min((current_interval * 12) \div 10, max_interval) ]_vars

(* a wait() reset an interval that backoff() had raised without            *)
(* saturating it                                                           *)
C23_Witness ==
    /\ api.op = "wait_begin"
    /\ api.gap > recovery_timeout
    /\ min_interval < api.prev /\ api.prev < max_interval
    /\ current_interval = min_interval

(* C24 as stated: for every reachable current_interval, two backoff()      *)
(* calls in a row leave the same current_interval as one.                  *)
C24_BackoffIdempotent ==
    BackoffInterval(BackoffInterval(current_interval)) =
        BackoffInterval(current_interval)

(* C24 at saturation only: backoff() leaves a current_interval that is at  *)
(* max_interval unchanged, so that repeating it there changes nothing,     *)
(* and it raises every smaller current_interval, never past max_interval;  *)
(* it can be called whenever the lock is free.                             *)
C24_BackoffSaturates ==
    /\ api.op = "backoff" =>
           /\ api.prev = max_interval => current_interval = max_interval
           /\ api.prev < max_interval =>
                  /\ current_interval > api.prev
                  /\ current_interval <= max_interval
    /\ \A p \in Procs :
           (pc[p] = "idle" /\ limiter_lock = 0) => ENABLED ApiBackoff(p)

(* backoff() was called with the interval already at max_interval *)
C24_Witness ==
    /\ api.op = "backoff"
    /\ api.prev = max_interval
    /\ current_interval = max_interval

---------------------------------------------------------------------------
(* Claims about response normalization *)

Formatted == args.fn = "format_number" /\ processed # Pending
Converted == args.fn = "convert_timestamps" /\ processed # Pending
Processed == args.fn = "process_data" /\ processed # Pending

(* C27: format_number(v, 'auto') is v / 10^8 when |v| >= 10^8, v / 10^4    *)
(* when 10^4 <= |v| < 10^8 and v otherwise, each rounded to 2 decimals;    *)
(* 'yi' and 'wan' force the divisor, 'raw' returns v, and None or a value  *)
(* that is no number is returned as it is.                                 *)
C27_FormatNumber ==
    Formatted =>
        LET v == args.val
            unit == args.unit
            magnitude == Abs(v)
        IN  IF ~IsNumber(v) THEN processed = v
            ELSE /\ unit = "raw" => processed = v
                 /\ unit = "yi" => processed = Round2(DividedBy(v, 8))
                 /\ unit = "wan" => processed = Round2(DividedBy(v, 4))
                 /\ unit = "auto" =>
                        /\ AtLeast(magnitude, Yi) => processed = Round2(DividedBy(v, 8))
                        /\ AtLeast(magnitude, Wan) /\ ~AtLeast(magnitude, Yi)
                               => processed = Round2(DividedBy(v, 4))
                        /\ ~AtLeast(magnitude, Wan) => processed = Round2(v)

(* format_number(100000000, 'auto') has returned 1.0 *)
C27_Witness ==
    /\ Formatted
    /\ args.val = PyInt(1, 8)
    /\ args.unit = "auto"
    /\ processed = PyFloat(1, 0)

(* the document the claim describes: every time key with a numeric value   *)
(* above a threshold converted, everything else as it was                  *)
RECURSIVE Canonical(_)
Canonical(data) ==
    IF data.type = "dict"
    THEN Dict([key \in DOMAIN data.items |->
                 LET v == data.items[key]
                 IN  IF IsTimeKey(key) /\ IsNumber(v)
                     THEN IF Greater(v, MillisEpoch) THEN DateTime(DividedBy(v, 3))
                          ELSE IF Greater(v, SecondsEpoch) THEN DateTime(v)
                          ELSE v
                     ELSE IF v.type \in {"dict", "list"} THEN Canonical(v)
                     ELSE v])
    ELSE IF data.type = "list"
    THEN List([i \in 1..Len(data.elems) |-> Canonical(data.elems[i])])
    ELSE data

(* C26: convert_timestamps visits every dict at every depth of dicts and   *)
(* lists and, under 'timestamp' or a key ending in '_date', converts a     *)
(* number above 10^12 as milliseconds and one above 10^9 and at most       *)
(* 10^12 as seconds; every other value is left as it was.                  *)
C26_Canonicalized ==
    Converted => processed = Canonical(args.data)

(* C25: process_data returns a value for every profile and every shape of  *)
(* input: it never raises.                                                 *)
C25_NeverRaises ==
    Processed => ~IsRaised(processed)

(* process_config.get('convert_timestamps', True) and .get('simplify') of  *)
(* the call                                                                *)
Canonicalizes ==
    \/ args.process_config = Null
    \/ Truthy(DictGet(args.process_config, "convert_timestamps", Bool(TRUE)))

Profile ==
    IF args.process_config = Null THEN Null
    ELSE DictGet(args.process_config, "simplify", Null)

Named == \E name \in Profiles : Profile = Word(name)

(* C28: with timestamp conversion on, process_data converts first and      *)
(* compacts second: without a profile, or with a name it does not know,    *)
(* the result is the converted input, and with a profile it is the         *)
(* compaction of the converted input.                                      *)
C28_ConvertThenCompact ==
    Processed /\ Canonicalizes =>
        LET canonical == ConvertTimestamps(args.data)
        IN  IF ~Named \/ IsRaised(canonical) THEN processed = canonical
            ELSE processed = Simplify(Profile, canonical)

(* the quote profile has made the time column from a millisecond epoch *)
C28_Witness ==
    /\ Processed
    /\ Profile = Word("quote")
    /\ args.data.type = "dict" /\ "data" \in DOMAIN args.data.items
    /\ args.data.items["data"].type = "list"
    /\ \E i \in 1..Len(args.data.items["data"].elems) :
          LET item == args.data.items["data"].elems[i]
          IN  item.type = "dict" /\ "timestamp" \in DOMAIN item.items
              /\ item.items["timestamp"] = PyInt(17, 11)
    /\ processed.type = "dict"
    /\ \E i \in 1..Len(processed.items["data"].elems) :
          processed.items["data"].elems[i].elems[9] = TimePart(DateTime(PyInt(17, 8)))

(* the document the profile received *)
Received == IF Canonicalizes THEN ConvertTimestamps(args.data) ELSE args.data

Compacted(name) ==
    /\ Processed
    /\ Profile = Word(name)
    /\ processed.type = "dict"
    /\ "columns" \in DOMAIN processed.items

(* the items a tabular profile makes rows of *)
SourceItems(name) ==
    IF name = "quote"
    THEN SelectSeq(Received.items["data"].elems, LAMBDA item : item.type = "dict")
    ELSE DictGet(Received.items["data"], "item", EmptyList).elems

QuoteSources ==
    << "symbol", "current", "percent", "chg", "volume", "amount", "market_capital",
       "turnover_rate", "timestamp" >>

KlineHeader == DictGet(Received.items["data"], "column", EmptyList)

(* column k has no source in the item *)
Missing(name, item, k) ==
    IF name = "quote" THEN QuoteSources[k] \notin DOMAIN item.items
    ELSE \/ ~In(src_cols[k], KlineHeader)
         \/ item.type = "list" /\ ColIndices(KlineHeader)[k] > Len(item.elems)

(* row and item are of the same rank: the row shows the item's first field *)
SameItem(name, row, item) ==
    IF name = "quote" THEN row.elems[1] = DictGet(item, "symbol", Null)
    ELSE \A k \in {2, 5} :
             ~Missing(name, item, k) =>
                 LET val == item.elems[ColIndices(KlineHeader)[k]]
                 IN  row.elems[k] = IF val.type = "float" THEN Round2(val) ELSE val

(* C29: a row of the quote and kline profiles has as many entries as the   *)
(* profile has columns, None in each column whose source the item lacks,   *)
(* and the rows are in the order of their items.                           *)
C29_RowsMatchColumns ==
    \A name \in {"quote", "kline"} :
        Compacted(name) =>
            LET columns == processed.items["columns"].elems
                rows == processed.items["data"].elems
                items == SourceItems(name)
            IN  /\ Len(rows) = Len(items)
                /\ \A i \in 1..Len(rows) :
                      /\ rows[i].type = "list"
                      /\ Len(rows[i].elems) = Len(columns)
                      /\ SameItem(name, rows[i], items[i])
                      /\ \A k \in 1..Len(columns) :
                            Missing(name, items[i], k) => rows[i].elems[k] = Null

(* two kline rows in the order of their items, the second one without the  *)
(* close its item lacks                                                    *)
C29_Witness ==
    /\ Compacted("kline")
    /\ Len(processed.items["data"].elems) = 2
    /\ processed.items["data"].elems[1].elems[5] = PyFloat(1061, -2)
    /\ processed.items["data"].elems[2].elems[5] = Null
    /\ processed.items["data"].elems[2].elems[2] = PyInt(10, 0)
    /\ Len(processed.items["data"].elems[2].elems) = 12

---------------------------------------------------------------------------
(* Claims about the failure path of rate_limited_call *)

IsFailureReport(e) == e.op = "report_failure"

FailureReports(p) == SelectSeq(call[p].log, IsFailureReport)

(* the place in the log of the n-th entry that satisfies Test *)
Place(p, Test(_), n) ==
    CHOOSE i \in 1..Len(call[p].log) :
        /\ Test(call[p].log[i])
        /\ Cardinality({ j \in 1..i : Test(call[p].log[j]) }) = n

(* one backoff(), between the two executions, and the interval it left *)
OneBackoffAfterFirstFailure(p) ==
    /\ Len(Backoffs(p)) = 1
    /\ Place(p, IsUpstream, 1) < Place(p, IsBackoff, 1)
    /\ Place(p, IsBackoff, 1) < Place(p, IsUpstream, 2)
    /\ current_interval = BackoffInterval(call[p].base)

(* two report_failure(), one after each execution, against the credential  *)
(* of that attempt                                                         *)
TwoFailureReports(p) ==
    /\ Len(FailureReports(p)) = 2
    /\ FailureReports(p)[1].tok = call[p].cur
    /\ FailureReports(p)[2].tok = call[p].retry
    /\ Place(p, IsUpstream, 1) < Place(p, IsFailureReport, 1)
    /\ Place(p, IsFailureReport, 1) < Place(p, IsUpstream, 2)
    /\ Place(p, IsUpstream, 2) < Place(p, IsFailureReport, 2)

(* C32 as stated: a call whose two attempts both failed has made one       *)
(* backoff(), after the first failure, and two report_failure(), one       *)
(* against the credential of each attempt, when the error is surfaced; the *)
(* second failure has not changed the interval.                            *)
C32_OneBackoffTwoReports ==
    \A p \in Procs :
        Finished(p) /\ BothFailed(p) =>
            OneBackoffAfterFirstFailure(p) /\ TwoFailureReports(p)

(* C32, amended: one backoff() after the first failure, none after the     *)
(* second; two report_failure() when the pool holds a credential, one      *)
(* against the credential of each attempt, and none when the pool is       *)
(* empty.                                                                  *)
C32_OneBackoffReportsIfCredential ==
    \A p \in Procs :
        Finished(p) /\ BothFailed(p) =>
            /\ OneBackoffAfterFirstFailure(p)
            /\ tokens # <<>> => TwoFailureReports(p)
            /\ tokens = <<>> => FailureReports(p) = <<>>

(* both attempts failed, on two different credentials *)
C32_Witness ==
    /\ Finished(1) /\ BothFailed(1)
    /\ call[1].cur # None /\ call[1].retry # None
    /\ call[1].cur # call[1].retry
    /\ current_interval > call[1].base

(* t was not cooling down when the wait() of the call in progress ended,   *)
(* which is when the first attempt took its credential                     *)
HealthyAtCall(t) == token_status[t].disabled_until <= last_request_time

(* the pool holds the first attempt's credential and, in another entry, a  *)
(* credential that was healthy when the call began                         *)
TwoHealthy(p) ==
    /\ Len(tokens) >= 2
    /\ \E i, j \in 1..Len(tokens) :
          i # j /\ tokens[i] = call[p].cur /\ HealthyAtCall(tokens[j])

(* the steps of p that take the retry's credential and that report the     *)
(* retry's success                                                         *)
TakesRetryToken(p) == pc[p] = "get2" /\ pc'[p] # "get2"
RetrySucceeds(p)   == pc[p] = "ok2" /\ pc'[p] = "done"

RetryRotates(p) ==
    /\ TakesRetryToken(p) /\ TwoHealthy(p) =>
           LET N == Len(tokens)
           IN  /\ call'[p].retry = tokens[((current_index + FirstEligibleOffset) % N) + 1]
               /\ tokens[IF current_index = 0 THEN N ELSE current_index] = call[p].cur
               /\ call'[p].retry # call[p].cur
    /\ RetrySucceeds(p) /\ TwoHealthy(p) =>
           /\ token_status'[call[p].retry].failures = 0
           /\ token_status'[call[p].cur].failures = token_status[call[p].cur].failures
           /\ token_status[call[p].cur].failures >= 1

(* C34: with two or more healthy credentials and calls one after the       *)
(* other, the retry takes the next credential in rotation, which is not    *)
(* the one of the failed first attempt, and a successful retry resets the  *)
(* failure count of the retry's credential only: the count of the first    *)
(* one stays as the failure left it.                                       *)
C34_RetryRotates == [][ RetryRotates(1) ]_vars

(* C34 where load has produced no duplicate entry *)
C34_RetryRotatesDistinct == [][ Distinct => RetryRotates(1) ]_vars

(* a retry on the next credential has succeeded: its count is 0 and the    *)
(* first credential's count is not                                         *)
C34_Witness ==
    /\ Finished(1) /\ FailedThenSucceeded(1)
    /\ Distinct /\ Len(tokens) = 3
    /\ call[1].cur = tokens[3] /\ call[1].retry = tokens[1]
    /\ token_status[call[1].retry].failures = 0
    /\ token_status[call[1].cur].failures >= 1

---------------------------------------------------------------------------
(* Claims about a token that keeps failing *)

(* report_failure on a token whose count has reached max_failures *)
FailsAgain(token) ==
    /\ Len(tokens) >= 2
    /\ token_status[token].failures >= max_failures
    /\ ApiReportFailure(token)

(* C33: in a pool of two or more tokens, every report_failure on a token   *)
(* whose failure count has reached max_failures sets its disabled_until to *)
(* now + cooldown_seconds, whether its cooldown has elapsed or not, which  *)
(* is never earlier than the old value and is later when time has passed   *)
(* since the failure before; the count leaves that range only by a         *)
(* report_success on the token.                                            *)
C33_DisabledAgain ==
    [][ \A token \in Range(tokens) :
            /\ FailsAgain(token) =>
                   /\ token_status'[token].failures = token_status[token].failures + 1
                   /\ token_status'[token].disabled_until = now + cooldown_seconds
                   /\ token_status'[token].disabled_until >= token_status[token].disabled_until
                   /\ now > g_since[token] =>
                          token_status'[token].disabled_until > token_status[token].disabled_until
            /\ (/\ token_status[token].failures >= max_failures
                /\ token_status'[token].failures < max_failures) =>
                   /\ ApiReportSuccess(token)
                   /\ token_status'[token].failures = 0 ]_vars

(* a token disabled a cooldown or more ago has failed once more and is     *)
(* disabled for a whole cooldown from now                                  *)
C33_Witness ==
    /\ Len(tokens) >= 2
    /\ \E t \in Range(tokens) :
           /\ token_status[t].failures > max_failures
           /\ g_since[t] = now
           /\ now >= StartTime + cooldown_seconds
           /\ token_status[t].disabled_until = now + cooldown_seconds

---------------------------------------------------------------------------
(* Claims about the pacing of the retry *)

(* p is between the failure of its first attempt and the upstream          *)
(* execution of its retry                                                  *)
Retrying(p) ==
    pc[p] \in {"report1", "report1_in", "sleeping", "get2", "get2_in", "set2", "call2"}

(* the step that ends p's wait() *)
EndsWait(p) == pc[p] = "waiting" /\ pc'[p] = "get1"

(* C31: the limiter does not pace the retry. last_request_time is written  *)
(* only by the step that ends a wait(); from the report of its first       *)
(* failure to the upstream execution of its retry a caller neither enters  *)
(* wait() nor touches the limiter, and the retry goes on as soon as its    *)
(* 2.0 s sleep is over, whatever current_interval and last_request_time    *)
(* are.                                                                    *)
C31_RetryNotPaced ==
    [][ /\ last_request_time' # last_request_time => \E q \in Procs : EndsWait(q)
        /\ \A p \in Procs :
              /\ Retrying(p) /\ pc'[p] # pc[p] =>
                     /\ pc'[p] \in {"call2", "ok2", "failed2"} \/ Retrying(p)'
                     /\ UNCHANGED limiterVars
              /\ pc[p] = "sleeping" /\ now >= call[p].wake => ENABLED Slept(p) ]_vars

(* caller 1 is about to run its retry 2.0 s after its first attempt, while *)
(* current_interval is larger than that and caller 2 has run its upstream  *)
(* call at this very time                                                  *)
C31_Witness ==
    /\ pc[1] = "call2"
    /\ now = StartTime + RetryDelay
    /\ current_interval > RetryDelay
    /\ last_request_time = now
    /\ Len(Executions(1)) = 1
    /\ Len(Executions(2)) = 1
    /\ call[1].ticket = 1

---------------------------------------------------------------------------
(* Claims about locks and termination *)

InCall(p) == pc[p] \notin {"idle", "done"}

(* the call of p has returned a result or raised *)
Ended(p) == pc[p] = "done" /\ call[p].outcome \in {"returned", "raised"}

TakesLock(p) ==
    \/ limiter_lock # p /\ limiter_lock' = p
    \/ pool_lock # p /\ pool_lock' = p

(* C35: a caller enters the limiter's lock or the pool's lock only while   *)
(* it holds neither, so no caller ever holds both, and in no reachable     *)
(* state are the calls in progress all unable to go on; with upstream      *)
(* executions that end and fair locks every call that has begun returns a  *)
(* result or raises.                                                       *)
C35_NoDeadlockTerminates ==
    /\ [][ \A p \in Procs : TakesLock(p) => HoldsNoLock(p) ]_vars
    /\ [] (\A p \in Procs : ~(limiter_lock = p /\ pool_lock = p))
    /\ [] ((\E p \in Procs : InCall(p)) => ENABLED NextConc)
    /\ \A p \in Procs : InCall(p) ~> Ended(p)

(* both callers have been in wait() in the order opposite to their         *)
(* arrival, either has failed once, and both calls have ended, one with a  *)
(* result and one with an exception                                        *)
C35_Witness ==
    /\ Ended(1) /\ Ended(2)
    /\ order.completed = << 2, 1 >>
    /\ call[1].outcome = "raised"
    /\ call[2].outcome = "returned"
    /\ Len(Executions(1)) = 2
    /\ Len(Executions(2)) = 2

====
